---- MODULE Spec2Model ----
(***************************************************************************)
(* Verification model of tc-data-creator-mcp: the synthesizer wrappers     *)
(* (fit / sample / post-constraint repair), the generate orchestration,    *)
(* the data loader's source selection and the quality scorer.              *)
(*                                                                         *)
(* Tables are column-oriented: a table is a function from column names to  *)
(* equally long sequences of cells.  A cell is a tagged value, so that a   *)
(* column may hold numbers and strings side by side (as a pandas object    *)
(* column does after a repair turned some numbers into strings).  Strings  *)
(* are sequences of one-character strings, so that str(), rsplit('@') and  *)
(* the f-string suffixes are computed rather than assumed.                 *)
(***************************************************************************)
EXTENDS Integers, Sequences, FiniteSets, TLC

VARIABLES
    \* ---- one synthesizer wrapper object (synthesizers/*.py) ----
    synthType,      \* "none" before create_synthesizer, else the wrapper class
    constraints,    \* self.constraints
    fitted,         \* self.fitted
    synthesizer,    \* self.synthesizer: the backend model held (or None)
    metadata,       \* self.metadata
    fitData,        \* the table handed to the last fit call
    fitOk,          \* the last fit call returned normally
    everFitted,     \* some fit call on this object has returned normally
    numRows,        \* the argument of the last sample call
    raw,            \* what the backend model returned in the last sample call
    out,            \* outcome of the last call on the wrapper
    \* ---- one load_data call (data_loaders/loader.py) ----
    loadArgs,       \* the arguments of the call
    loadOut,        \* its outcome: an error, or the table returned
    \* ---- one generate request (tools/generate.py) ----
    pc,             \* where the handler stands
    req,            \* the arguments of the request
    files,          \* the output files written: path -> table
    response,       \* what the handler returned or raised
    \* ---- one generate_quality_report call (validators/quality_validator.py) ----
    scoreIn,        \* the two tables' schemas and what each metric computation does
    report,         \* the report returned
    \* ---- one _calculate_overall_quality call on a metrics dict ----
    calcIn,         \* the metrics dict
    calcOut,        \* the value returned
    \* ---- one _build_column_constraints call (synthesizers/constraints_handler.py) ----
    compileIn,      \* the column and its leaf rule set
    compileOut,     \* the constraints built
    \* ---- one call on a ConstraintsHandler: build_constraints,
    \* ---- FormulaConstraint.is_valid or validate_constraints ----
    ruleIn,         \* the operation and its arguments
    ruleOut,        \* what it returned
    \* ---- one analyze_sample_data call (tools/analyze.py) ----
    anaIn,          \* the arguments and what the source holds
    anaOut,         \* what the handler returned or raised
    \* ---- one validate_synthetic_quality call (tools/validate.py) ----
    valArgs,        \* the two files named
    valOut,         \* what the handler returned or raised
    \* ---- the server's event loop (server.py) ----
    tasks,          \* the call_tool invocations: task -> where it stands
    running,        \* the task the loop's thread is executing, 0 when it is free
    clock,          \* the wall clock, in whole seconds
    disk,           \* the output directory: path -> what the file holds
    \* ---- the steps of the request in progress, in the order performed ----
    steps

synthVars == <<synthType, constraints, fitted, synthesizer, metadata,
               fitData, fitOk, everFitted, numRows, raw, out>>

loadVars == <<loadArgs, loadOut>>

genVars == <<pc, req, files, response>>

scoreVars == <<scoreIn, report, calcIn, calcOut>>

compileVars == <<compileIn, compileOut>>

ruleVars == <<ruleIn, ruleOut>>

anaVars == <<anaIn, anaOut>>

valVars == <<valArgs, valOut>>

serveVars == <<tasks, running, clock, disk>>

vars == <<synthVars, loadVars, genVars, scoreVars, compileVars, ruleVars, anaVars,
          valVars, serveVars, steps>>

-----------------------------------------------------------------------------
(* Bounds of the model *)

MaxRows == 3

-----------------------------------------------------------------------------
(* Cells, strings and tables *)

Num(n) == [t |-> "num", n |-> n, s |-> <<>>]
Str(s) == [t |-> "str", n |-> 0, s |-> s]

Digit(d) == CASE d = 0 -> "0" [] d = 1 -> "1" [] d = 2 -> "2" [] d = 3 -> "3"
              [] d = 4 -> "4" [] d = 5 -> "5" [] d = 6 -> "6" [] d = 7 -> "7"
              [] d = 8 -> "8" [] d = 9 -> "9"

RECURSIVE IntStr(_)
\* Python's str() of an integer
IntStr(n) == IF n < 0 THEN <<"-">> \o IntStr(0 - n)
             ELSE IF n < 10 THEN <<Digit(n)>>
             ELSE IntStr(n \div 10) \o <<Digit(n % 10)>>

\* Python's str() of a cell
PyStr(val) == IF val.t = "num" THEN IntStr(val.n) ELSE val.s

\* Python's None, for an optional string argument
NONE == "<None>"

\* bool(x) of an optional string
Truthy(x) == x # NONE /\ x # ""

NoTable == [c \in {} |-> <<>>]

Columns(df) == DOMAIN df

NRows(df) == IF Columns(df) = {} THEN 0
             ELSE Len(df[CHOOSE c \in Columns(df) : TRUE])

\* pd.api.types.is_numeric_dtype of a column
IsNumeric(col) == \A i \in 1..Len(col) : col[i].t = "num"

\* Series.duplicated().any()
HasDuplicates(col) == \E i, j \in 1..Len(col) : i < j /\ col[i] = col[j]

-----------------------------------------------------------------------------
(* Input domains *)

ColNames == {"age", "email"}

\* the sample tables handed to fit (strings: "a", "a_1", "b@c")
SampleAge   == [c \in {"age"} |-> <<Num(0), Num(2), Num(4)>>]
SampleEmail == [c \in {"email"} |->
                  <<Str(<<"a">>), Str(<<"a", "_", "1">>), Str(<<"b", "@", "c">>)>>]
SampleBoth  == [c \in ColNames |->
                  IF c = "age" THEN <<Num(1), Num(3)>>
                  ELSE <<Str(<<"a">>), Str(<<"b", "@", "c">>)>>]
Samples == {SampleAge, SampleEmail, SampleBoth}

EmptyCfg == [k \in {} |-> 0]

\* leaf rule sets for a numeric column
AgeConfigs == { ("min" :> 1) @@ ("max" :> 3),
                ("min" :> 1) @@ ("max" :> 3) @@ ("strict" :> FALSE),
                ("min" :> 1) @@ ("max" :> 3) @@ ("unique" :> TRUE) }

\* leaf rule sets for a string column
EmailConfigs == { ("unique" :> TRUE), ("unique" :> FALSE) }

\* constraint configurations: None / {} (modelled alike, both are falsy
\* everywhere they are read) or a mapping column -> leaf rule set
ConstraintConfigs ==
    {EmptyCfg}
    \cup {("age" :> a) : a \in AgeConfigs}
    \cup {("email" :> e) : e \in EmailConfigs}
    \cup {("age" :> a) @@ ("email" :> e) : a \in AgeConfigs, e \in EmailConfigs}

\* dict.get(key, default)
Get(cfg, key, default) == IF key \in DOMAIN cfg THEN cfg[key] ELSE default

-----------------------------------------------------------------------------
(* config.py *)

\* variant: a third backend name is accepted
SUPPORTED_SYNTHESIZERS_with_ctgan == {"gaussian_copula", "tvae", "ctgan"}

\* config.SUPPORTED_SYNTHESIZERS
SUPPORTED_SYNTHESIZERS == {"gaussian_copula", "tvae"}

SynthNames == SUPPORTED_SYNTHESIZERS \cup {"ctgan"}

-----------------------------------------------------------------------------
(* GaussianCopulaSynthesizerWrapper._apply_post_constraints *)

\* Series.clip(lower=low, upper=high) on one cell; a bound that is None
\* (key absent) does not clip
ClipCell(val, cfg) ==
    LET lo == IF "min" \in DOMAIN cfg /\ val.n < cfg["min"] THEN cfg["min"] ELSE val.n
        hi == IF "max" \in DOMAIN cfg /\ lo > cfg["max"] THEN cfg["max"] ELSE lo
    IN Num(hi)

ClipCol(col, cfg) == [i \in 1..Len(col) |-> ClipCell(col[i], cfg)]

\* index of the last '@' of a string, 0 if there is none
LastAt(s) == IF \E i \in 1..Len(s) : s[i] = "@"
             THEN CHOOSE i \in 1..Len(s) :
                     s[i] = "@" /\ \A j \in (i+1)..Len(s) : s[j] # "@"
             ELSE 0

\* variant: the first repeat keeps the counter's initial value
Renamed_counting_from_zero(val, k) ==
    LET str == PyStr(val)
        at  == LastAt(str)
    IN IF at # 0
       THEN Str(SubSeq(str, 1, at - 1) \o <<"+">> \o IntStr(k - 1) \o <<"@">>
                \o SubSeq(str, at + 1, Len(str)))
       ELSE Str(str \o <<"_">> \o IntStr(k - 1))

\* the value make_unique returns for a value already seen, seen[val] = k
Renamed(val, k) ==
    LET str == PyStr(val)
        at  == LastAt(str)
    IN IF at # 0
       THEN Str(SubSeq(str, 1, at - 1) \o <<"+">> \o IntStr(k) \o <<"@">>
                \o SubSeq(str, at + 1, Len(str)))
       ELSE Str(str \o <<"_">> \o IntStr(k))

RECURSIVE MakeUniqueFrom(_, _, _)
\* df[col].apply(make_unique) from row i on, with the closure's dict `seen`
MakeUniqueFrom(col, i, seen) ==
    IF i > Len(col) THEN <<>>
    ELSE LET val == col[i] IN
         IF val \notin DOMAIN seen
         THEN <<val>> \o MakeUniqueFrom(col, i + 1, seen @@ (val :> 0))
         ELSE <<Renamed(val, seen[val] + 1)>>
              \o MakeUniqueFrom(col, i + 1, [seen EXCEPT ![val] = seen[val] + 1])

make_unique(col) == MakeUniqueFrom(col, 1, [v \in {} |-> 0])

\* the body of the loop over self.constraints.items() for one column
ApplyColumn(col, cfg) ==
    LET clipped == IF ("min" \in DOMAIN cfg \/ "max" \in DOMAIN cfg) /\ IsNumeric(col)
                   THEN ClipCol(col, cfg) ELSE col
    IN IF Get(cfg, "unique", FALSE) /\ HasDuplicates(clipped)
       THEN make_unique(clipped) ELSE clipped

\* variant: rebuilds the table from the configured columns alone
apply_post_constraints_configured_only(df, cons) ==
    IF DOMAIN cons = {} THEN df
    ELSE [c \in Columns(df) \cap DOMAIN cons |-> ApplyColumn(df[c], cons[c])]

apply_post_constraints(df, cons) ==
    IF DOMAIN cons = {} THEN df
    ELSE [c \in Columns(df) |->
            IF c \in DOMAIN cons THEN ApplyColumn(df[c], cons[c]) ELSE df[c]]


-----------------------------------------------------------------------------
(* ConstraintsHandler: relationships, dependencies and formula constraints *)

\* a formula string "<col> * <times>", e.g. "price * 2"
Times(col, k) == [col |-> col, times |-> k]

\* rel.get("formula") of a rule without the key
NoFormula == Times(NONE, 0)

\* ConstraintsHandler._create_formula_constraint
create_formula_constraint(target_column, formula) ==
    [kind |-> "FormulaConstraint", column_name |-> target_column, formula |-> formula]

\* the body of the loop of _build_relationship_constraints for one rule
relationship_constraints(rel) ==
    LET rel_type == Get(rel, "type", NONE) IN
    IF rel_type = "inequality"
    THEN LET low_col  == Get(rel, "low_column", NONE)
             high_col == Get(rel, "high_column", NONE)
         IN IF Truthy(low_col) /\ Truthy(high_col)
            THEN << [kind |-> "Inequality", low_column_name |-> low_col,
                     high_column_name |-> high_col] >>
            ELSE << >>
    ELSE IF rel_type = "custom_formula"
    THEN << create_formula_constraint(Get(rel, "column", NONE),
                                      Get(rel, "formula", NoFormula)) >>
    ELSE << >>

RECURSIVE build_relationship_constraints(_, _)
\* ConstraintsHandler._build_relationship_constraints: df is not read
build_relationship_constraints(relationships, df) ==
    IF relationships = << >> THEN << >>
    ELSE relationship_constraints(Head(relationships))
         \o build_relationship_constraints(Tail(relationships), df)

\* variant: the combination is emitted without looking at the sample's columns
build_dependency_constraints_unchecked(dependencies, df) ==
    LET column     == Get(dependencies, "column", NONE)
        depends_on == Get(dependencies, "depends_on", << >>)
        combo_cols == depends_on \o <<column>>
    IN IF Truthy(column) /\ depends_on # << >>
       THEN << [kind |-> "FixedCombinations", column_names |-> combo_cols] >>
       ELSE << >>

\* ConstraintsHandler._build_dependency_constraints
build_dependency_constraints(dependencies, df) ==
    LET column     == Get(dependencies, "column", NONE)
        depends_on == Get(dependencies, "depends_on", << >>)
        combo_cols == depends_on \o <<column>>
    IN IF Truthy(column) /\ depends_on # << >>
          /\ \A i \in 1..Len(combo_cols) : combo_cols[i] \in Columns(df)
       THEN << [kind |-> "FixedCombinations", column_names |-> combo_cols] >>
       ELSE << >>

\* abs()
Abs(x) == IF x < 0 THEN 0 - x ELSE x

\* DataFrame.eval(formula) raises: no formula, or a name that is not a column
EvalRaises(formula, df) == formula = NoFormula \/ formula.col \notin Columns(df)

\* DataFrame.eval(formula): one value per row
Eval(formula, df) == [i \in 1..NRows(df) |-> df[formula.col][i].n * formula.times]

\* variant: a formula that cannot be evaluated fails every row
formula_is_valid_fail_closed(c, df, one) ==
    IF EvalRaises(c.formula, df) \/ c.column_name \notin Columns(df)
    THEN [i \in 1..NRows(df) |-> FALSE]
    ELSE [i \in 1..NRows(df) |->
            Abs(Eval(c.formula, df)[i] - df[c.column_name][i].n) * 100 < one]

\* FormulaConstraint.is_valid on a table whose cells are counted in units of
\* 1/one: abs(calculated - actual) < 0.01 row by row, and all True when the
\* evaluation or the column look-up raises
formula_is_valid(c, df, one) ==
    IF EvalRaises(c.formula, df) \/ c.column_name \notin Columns(df)
    THEN [i \in 1..NRows(df) |-> TRUE]
    ELSE [i \in 1..NRows(df) |->
            Abs(Eval(c.formula, df)[i] - df[c.column_name][i].n) * 100 < one]

\* FormulaConstraint.transform: the target column is overwritten with the
\* formula's values; the table is returned as it is when that raises
\* (neither wrapper nor the handler calls it)
formula_transform(c, df) ==
    IF EvalRaises(c.formula, df) THEN df
    ELSE [col \in Columns(df) \cup {c.column_name} |->
            IF col = c.column_name
            THEN [i \in 1..NRows(df) |-> Num(Eval(c.formula, df)[i])]
            ELSE df[col]]

\* constraint.is_valid(synthetic_df): computed for a formula constraint, the
\* library's outcome `lib` for a constraint of the library
is_valid(c, df, lib, one) ==
    IF c.kind = "FormulaConstraint"
    THEN [raises |-> FALSE, valid |-> formula_is_valid(c, df, one)]
    ELSE lib

\* (~is_valid).sum()
ViolationCount(valid) == Cardinality({i \in 1..Len(valid) : ~valid[i]})

\* the entry appended for one constraint: to passed, or to violations
ValidationEntry(c, df, lib, one) ==
    LET res == is_valid(c, df, lib, one) IN
    IF res.raises
    THEN [list |-> "violations", entry |-> [constraint |-> c, error |-> "raised"]]
    ELSE IF \A i \in 1..Len(res.valid) : res.valid[i]
    THEN [list |-> "passed", entry |-> [constraint |-> c]]
    ELSE [list |-> "violations",
          entry |-> [constraint |-> c, violations |-> ViolationCount(res.valid),
                     percentage |-> [num |-> ViolationCount(res.valid) * 100,
                                     den |-> NRows(df)]]]

\* variant: a constraint whose evaluation raises is left out of the result
ValidationEntries_errors_dropped(sdv, df, libs, one) ==
    LET all == [i \in 1..Len(sdv) |-> ValidationEntry(sdv[i], df, libs[i], one)]
    IN SelectSeq(all, LAMBDA e : "error" \notin DOMAIN e.entry)

\* the loop of validate_constraints over self.sdv_constraints
ValidationEntries(sdv, df, libs, one) ==
    [i \in 1..Len(sdv) |-> ValidationEntry(sdv[i], df, libs[i], one)]

\* ConstraintsHandler.validate_constraints
validate_constraints(sdv, df, libs, one) ==
    LET entries == ValidationEntries(sdv, df, libs, one)
        passed     == SelectSeq(entries, LAMBDA e : e.list = "passed")
        violations == SelectSeq(entries, LAMBDA e : e.list = "violations")
    IN [passed |-> [i \in 1..Len(passed) |-> passed[i].entry.constraint],
        violations |-> [i \in 1..Len(violations) |-> violations[i].entry],
        total_constraints |-> Len(sdv),
        constraints_satisfied |-> Len(passed)]

-----------------------------------------------------------------------------
(* ConstraintsHandler._build_column_constraints and the wrappers' fit *)

\* variant: a lone min compiles to Positive whatever its value
build_column_constraints_any_min(column, config) ==
    LET low  == "min" \in DOMAIN config
        high == "max" \in DOMAIN config
        bound == IF low /\ high
                 THEN << [kind |-> "ScalarRange", column |-> column,
                          low |-> config["min"], high |-> config["max"],
                          strict |-> Get(config, "strict", TRUE)] >>
                 ELSE IF low
                 THEN << [kind |-> "Positive", column |-> column,
                          low |-> 0, high |-> 0, strict |-> TRUE] >>
                 ELSE IF (~low) /\ high /\ config["max"] = 0
                 THEN << [kind |-> "Negative", column |-> column,
                          low |-> 0, high |-> 0, strict |-> TRUE] >>
                 ELSE << >>
        uniq == IF Get(config, "unique", FALSE)
                THEN << [kind |-> "Unique", column |-> column,
                         low |-> 0, high |-> 0, strict |-> TRUE] >>
                ELSE << >>
    IN bound \o uniq

\* the constraint objects built for one column, in the order appended
build_column_constraints(column, config) ==
    LET low  == "min" \in DOMAIN config
        high == "max" \in DOMAIN config
        bound == IF low /\ high
                 THEN << [kind |-> "ScalarRange", column |-> column,
                          low |-> config["min"], high |-> config["max"],
                          strict |-> Get(config, "strict", TRUE)] >>
                 ELSE IF low /\ config["min"] = 0
                 THEN << [kind |-> "Positive", column |-> column,
                          low |-> 0, high |-> 0, strict |-> TRUE] >>
                 ELSE IF (~low) /\ high /\ config["max"] = 0
                 THEN << [kind |-> "Negative", column |-> column,
                          low |-> 0, high |-> 0, strict |-> TRUE] >>
                 ELSE << >>
        uniq == IF Get(config, "unique", FALSE)
                THEN << [kind |-> "Unique", column |-> column,
                         low |-> 0, high |-> 0, strict |-> TRUE] >>
                ELSE << >>
    IN bound \o uniq

\* iteration order of the configuration's column keys
ConfigKeyOrder == <<"age", "email">>

RECURSIVE BuildFrom(_, _)
BuildFrom(cons, i) ==
    IF i > Len(ConfigKeyOrder) THEN << >>
    ELSE (IF ConfigKeyOrder[i] \in DOMAIN cons
          THEN build_column_constraints(ConfigKeyOrder[i], cons[ConfigKeyOrder[i]])
          ELSE << >>) \o BuildFrom(cons, i + 1)

\* ConstraintsHandler.build_constraints: column rules, then relationships,
\* then (conditional rules build nothing) dependencies
build_constraints(cons, df) ==
    BuildFrom(cons, 1)
    \o (IF "relationships" \in DOMAIN cons
        THEN build_relationship_constraints(cons["relationships"], df) ELSE << >>)
    \o (IF "dependencies" \in DOMAIN cons
        THEN build_dependency_constraints(cons["dependencies"], df) ELSE << >>)

\* the constraints fit hands to the backend model
valid_constraints(sdv) ==
    SelectSeq(sdv, LAMBDA c : c.kind \in {"Unique", "Inequality", "FixedCombinations"})

\* SingleTableMetadata.detect_from_dataframe: column -> detected type
SchemaOf(df) == [c \in Columns(df) |-> IF IsNumeric(df[c]) THEN "num" ELSE "str"]

NoSchema == [c \in {} |-> "num"]

\* self.synthesizer is None
NoModel == [held |-> FALSE, isFit |-> FALSE, schema |-> NoSchema,
            learned |-> [c \in {} |-> {}], added |-> << >>]

\* a backend model object as constructed in fit, before its own fit
NewModel(schema) == [held |-> TRUE, isFit |-> FALSE, schema |-> schema,
                     learned |-> [c \in DOMAIN schema |-> {}], added |-> << >>]

\* what the backend model learns of a column: with enforce_min_max_values and
\* enforce_rounding, a numeric column is sampled as whole numbers between the
\* least and the greatest value seen; a text column as one of the values seen
Learned(col) ==
    IF IsNumeric(col)
    THEN LET seen == {col[i].n : i \in 1..Len(col)}
             lo == CHOOSE v \in seen : \A w \in seen : v <= w
             hi == CHOOSE v \in seen : \A w \in seen : w <= v
         IN {Num(v) : v \in lo..hi}
    ELSE {col[i] : i \in 1..Len(col)}

\* the backend model after its own fit(data) succeeded
FittedModel(data, added) ==
    [held |-> TRUE, isFit |-> TRUE, schema |-> SchemaOf(data),
     learned |-> [c \in Columns(data) |-> Learned(data[c])], added |-> added]

NoOut == [call |-> "none", status |-> "none", err |-> "", hasTable |-> FALSE,
          table |-> NoTable]
Raised(call, msg) == [call |-> call, status |-> "error", err |-> msg,
                      hasTable |-> FALSE, table |-> NoTable]
Returned(call) == [call |-> call, status |-> "ok", err |-> "", hasTable |-> FALSE,
                   table |-> NoTable]
ReturnedTable(call, df) == [call |-> call, status |-> "ok", err |-> "",
                            hasTable |-> TRUE, table |-> df]

\* where a fit call can end: the three library calls that may raise, or success
FitOutcomes == {"ok", "detect_raises", "add_constraints_raises", "fit_raises"}

-----------------------------------------------------------------------------
(* synthesizers/factory.py *)

\* create_synthesizer(synthesizer_type, constraints)
CreateSynthesizer(name, cons) ==
    /\ synthType = "none"
    /\ IF name \notin SUPPORTED_SYNTHESIZERS
       THEN /\ out' = Raised("create", "Unsupported synthesizer")
            /\ UNCHANGED <<synthType, constraints, fitted, synthesizer, metadata>>
       ELSE /\ synthType' = name
            /\ constraints' = cons
            /\ fitted' = FALSE
            /\ synthesizer' = NoModel
            /\ metadata' = NoSchema
            /\ out' = Returned("create")
    /\ UNCHANGED <<fitData, fitOk, everFitted, numRows, raw>>

-----------------------------------------------------------------------------
(* GaussianCopulaSynthesizerWrapper.fit / TVAESynthesizerWrapper.fit *)

FitCall(data, outcome) ==
    /\ synthType \in SUPPORTED_SYNTHESIZERS
    /\ fitData' = data
    /\ fitOk' = (outcome = "ok")
    /\ everFitted' = (everFitted \/ outcome = "ok")
    /\ UNCHANGED <<synthType, constraints, numRows>>
    /\ raw' = NoTable
    /\ LET sdv   == build_constraints(constraints, data)
           valid == valid_constraints(sdv)
           model == NewModel(SchemaOf(data))
       IN CASE outcome = "detect_raises" ->
                 \* self.metadata was replaced by a fresh, empty metadata object
                 /\ metadata' = NoSchema
                 /\ UNCHANGED <<synthesizer, fitted>>
                 /\ out' = Raised("fit", "metadata detection failed")
            [] outcome = "add_constraints_raises" ->
                 /\ valid # << >>
                 /\ metadata' = SchemaOf(data)
                 /\ synthesizer' = model
                 /\ UNCHANGED fitted
                 /\ out' = Raised("fit", "add_constraints failed")
            [] outcome = "fit_raises" ->
                 /\ metadata' = SchemaOf(data)
                 /\ synthesizer' = [model EXCEPT !.added = valid]
                 /\ UNCHANGED fitted
                 /\ out' = Raised("fit", "model fit failed")
            [] outcome = "ok" ->
                 /\ metadata' = SchemaOf(data)
                 /\ synthesizer' = FittedModel(data, valid)
                 /\ fitted' = TRUE
                 /\ out' = Returned("fit")

-----------------------------------------------------------------------------
(* GaussianCopulaSynthesizerWrapper.sample / TVAESynthesizerWrapper.sample *)

RECURSIVE TablesOver(_, _, _)
\* every table with the columns `cols`, n rows and cells as learned
TablesOver(learned, cols, n) ==
    IF cols = {} THEN {NoTable}
    ELSE LET c == CHOOSE x \in cols : TRUE IN
         { (c :> col) @@ t : col \in [1..n -> learned[c]],
                             t \in TablesOver(learned, cols \ {c}, n) }

\* what self.synthesizer.sample(num_rows) may return: num_rows rows over the
\* schema the model was fitted on
BackendSample(model, n) == TablesOver(model.learned, DOMAIN model.schema, n)

\* variant: the readiness check always passes
validate_unchecked == TRUE

\* BaseSynthesizer.validate
validate == fitted

\* whether the wrapper's sample passes the backend's rows through
\* _apply_post_constraints: the copula wrapper does, the TVAE wrapper returns
\* them as they are
RunsPostConstraints(type) == type = "gaussian_copula"

\* the wrapper's processing of the backend's rows
PostProcess(type, df, cons) ==
    IF RunsPostConstraints(type) THEN apply_post_constraints(df, cons) ELSE df

\* sample leaves every field of the wrapper as it was, so a sample that
\* follows a sample reaches nothing a first sample does not: the calls are
\* explored as create, then any fit/sample sequence without two samples in a row
SampleCall(n) ==
    /\ synthType \in SUPPORTED_SYNTHESIZERS
    /\ out.call # "sample"
    /\ numRows' = n
    /\ UNCHANGED <<synthType, constraints, fitted, synthesizer, metadata,
                   fitData, fitOk, everFitted>>
    /\ IF ~validate
       THEN /\ raw' = NoTable
            /\ out' = Raised("sample", "Synthesizer must be fitted before sampling")
       ELSE IF ~synthesizer.held
       THEN \* self.synthesizer is None
            /\ raw' = NoTable
            /\ out' = Raised("sample", "NoneType has no attribute sample")
       ELSE IF ~synthesizer.isFit
       THEN \* the model held was never fitted: the backend raises
            /\ raw' = NoTable
            /\ out' = Raised("sample", "backend model is not fitted")
       ELSE \E df \in BackendSample(synthesizer, n) :
               /\ raw' = df
               /\ out' = ReturnedTable("sample", PostProcess(synthType, df, constraints))

\* the wrapper variables before any wrapper exists
SynthIdle ==
    /\ synthType = "none"
    /\ constraints = EmptyCfg
    /\ fitted = FALSE
    /\ synthesizer = NoModel
    /\ metadata = NoSchema
    /\ fitData = NoTable
    /\ fitOk = FALSE
    /\ everFitted = FALSE
    /\ numRows = 0
    /\ raw = NoTable
    /\ out = NoOut

-----------------------------------------------------------------------------
(* config.py: limits *)

MAX_SAMPLE_ROWS == 50000
MAX_SAMPLE_SIZE_MB == 100
MAX_GENERATED_ROWS == 1000000
MAX_COLUMNS == 200

-----------------------------------------------------------------------------
(* data_loaders/loader.py *)

\* what a source holds: the table's dimensions as _validate_data measures
\* them (len(df), len(df.columns), memory in whole MB) and, for the small
\* ones, the table itself
Content(df) == [rows |-> NRows(df), cols |-> Cardinality(Columns(df)), mb |-> 0,
                table |-> df]
Bulk(rows, cols, mb) == [rows |-> rows, cols |-> cols, mb |-> mb, table |-> NoTable]

SmallContents == {Content(SampleBoth), Content(SampleAge)}

Contents == SmallContents
            \cup { Bulk(0, 2, 0),
                   Bulk(MAX_SAMPLE_ROWS, MAX_COLUMNS, MAX_SAMPLE_SIZE_MB),
                   Bulk(MAX_SAMPLE_ROWS + 1, 2, 1),
                   Bulk(10, MAX_COLUMNS + 1, 1),
                   Bulk(10, 2, MAX_SAMPLE_SIZE_MB + 1) }

LoadFailed(msg) == [status |-> "error", err |-> msg, content |-> Bulk(0, 0, 0)]
Loaded(content) == [status |-> "ok", err |-> "", content |-> content]
NoLoad == [status |-> "none", err |-> "", content |-> Bulk(0, 0, 0)]

NoArgs == [file_path |-> NONE, inline_data |-> NONE, db_connection |-> NONE,
           table_name |-> NONE]

\* the files of the file system: path -> suffix, size on disk, parsed content
FileSuffix(path) == CASE path = "data.csv" -> ".csv"
                      [] path = "DATA.CSV" -> ".csv"
                      [] path = "data.json" -> ".json"
                      [] path = "big.parquet" -> ".parquet"
                      [] OTHER -> ".xlsx"
SUPPORTED_INPUT_SUFFIXES == {".csv", ".json", ".parquet"}

\* the argument values tried (a path that does not exist, an existing file
\* per suffix; inline strings that are no JSON, no array, an empty array, an
\* array of objects)
FilePaths == {NONE, "", "missing.csv", "data.csv", "data.json", "big.parquet", "data.xlsx"}
InlineData == {NONE, "", "not json", "{}", "[]", "[rows]"}
DbConnections == {NONE, "", "sqlite:///x.db"}
TableNames == {NONE, "", "users"}

\* variant: a database connection counts as a source without a table name
sources_provided_db_alone(a) ==
    (IF Truthy(a.file_path) THEN 1 ELSE 0)
    + (IF Truthy(a.inline_data) THEN 1 ELSE 0)
    + (IF Truthy(a.db_connection) THEN 1 ELSE 0)

\* sum([bool(file_path), bool(inline_data), bool(db_connection and table_name)])
sources_provided(a) ==
    (IF Truthy(a.file_path) THEN 1 ELSE 0)
    + (IF Truthy(a.inline_data) THEN 1 ELSE 0)
    + (IF Truthy(a.db_connection) /\ Truthy(a.table_name) THEN 1 ELSE 0)

\* variant: the column count is not checked
validate_data_no_column_limit(c) ==
    IF c.rows = 0 THEN LoadFailed("Loaded data is empty")
    ELSE IF c.rows > MAX_SAMPLE_ROWS THEN LoadFailed("Data has too many rows")
    ELSE IF c.mb > MAX_SAMPLE_SIZE_MB THEN LoadFailed("Data size exceeds maximum")
    ELSE Loaded(c)

\* _validate_data
validate_data(c) ==
    IF c.rows = 0 THEN LoadFailed("Loaded data is empty")
    ELSE IF c.rows > MAX_SAMPLE_ROWS THEN LoadFailed("Data has too many rows")
    ELSE IF c.cols > MAX_COLUMNS THEN LoadFailed("Data has too many columns")
    ELSE IF c.mb > MAX_SAMPLE_SIZE_MB THEN LoadFailed("Data size exceeds maximum")
    ELSE Loaded(c)

\* _load_from_file: the outcome and the steps taken, for a file of the given
\* size on disk whose read either raises or yields `content`
load_from_file(path, diskMb, readOk, content) ==
    IF path = "missing.csv"
    THEN [res |-> LoadFailed("File not found"), io |-> <<"stat_file">>]
    ELSE IF diskMb > MAX_SAMPLE_SIZE_MB
    THEN [res |-> LoadFailed("File size exceeds maximum"), io |-> <<"stat_file">>]
    ELSE IF FileSuffix(path) \notin SUPPORTED_INPUT_SUFFIXES
    THEN [res |-> LoadFailed("Unsupported file format"), io |-> <<"stat_file">>]
    ELSE IF ~readOk
    THEN [res |-> LoadFailed("read failed"), io |-> <<"stat_file", "read_file">>]
    ELSE [res |-> validate_data(content), io |-> <<"stat_file", "read_file">>]

\* _load_from_inline
load_from_inline(text, content) ==
    IF text = "not json"
    THEN [res |-> LoadFailed("Invalid JSON format"), io |-> <<"parse_inline">>]
    ELSE IF text = "{}"
    THEN [res |-> LoadFailed("Inline data must be a JSON array of objects"),
          io |-> <<"parse_inline">>]
    ELSE IF text = "[]"
    THEN [res |-> LoadFailed("Inline data cannot be empty"), io |-> <<"parse_inline">>]
    ELSE [res |-> validate_data(content), io |-> <<"parse_inline">>]

\* _load_from_database: the query is limited to MAX_SAMPLE_ROWS rows
load_from_database(connectOk, content) ==
    IF ~connectOk
    THEN [res |-> LoadFailed("Database connection error"), io |-> <<"query_db">>]
    ELSE [res |-> validate_data([content EXCEPT !.rows =
                      IF content.rows > MAX_SAMPLE_ROWS THEN MAX_SAMPLE_ROWS
                      ELSE content.rows]),
          io |-> <<"query_db">>]

\* load_data: the outcome and the steps taken; diskMb, ok and content say
\* what the source chosen turns out to hold
load_data(a, diskMb, ok, content) ==
    LET n == sources_provided(a) IN
    IF n = 0
    THEN [res |-> LoadFailed("Must provide exactly one of: file_path, inline_data, or (db_connection + table_name)"),
          io |-> <<"validate_sources">>]
    ELSE IF n > 1
    THEN [res |-> LoadFailed("Provide only one input source: file_path, inline_data, or (db_connection + table_name)"),
          io |-> <<"validate_sources">>]
    ELSE LET r == IF Truthy(a.file_path)
                  THEN load_from_file(a.file_path, diskMb, ok, content)
                  ELSE IF Truthy(a.inline_data)
                  THEN load_from_inline(a.inline_data, content)
                  ELSE load_from_database(ok, content)
         IN [res |-> r.res, io |-> <<"validate_sources">> \o r.io]

DiskSizes == {1, MAX_SAMPLE_SIZE_MB + 1}

\* one call of load_data on sources that hold one of `contents`
LoadCall(a, contents) ==
    /\ loadOut.status = "none"
    /\ \E diskMb \in DiskSizes, ok \in BOOLEAN, content \in contents :
          LET r == load_data(a, diskMb, ok, content) IN
          /\ loadArgs' = a
          /\ loadOut' = r.res
          /\ steps' = steps \o r.io

LoadIdle == loadArgs = NoArgs /\ loadOut = NoLoad

NoRequest == [file_path |-> NONE, inline_data |-> NONE, db_connection |-> NONE,
              table_name |-> NONE, synthesizer |-> "gaussian_copula", num_rows |-> 0,
              constraints |-> EmptyCfg, output_format |-> "csv", output_path |-> NONE]

NoFiles == [p \in {} |-> NoTable]

NoResponse == [status |-> "none", err |-> "", file_path |-> NONE, rows_generated |-> 0,
               columns |-> 0]

GenIdle == pc = "idle" /\ req = NoRequest /\ files = NoFiles /\ response = NoResponse

-----------------------------------------------------------------------------
(* tools/generate.py: generate_synthetic_data, step by step *)

\* variant: a fourth format is written
SUPPORTED_OUTPUT_FORMATS_with_xml == {"csv", "json", "parquet", "xml"}

\* the formats the handler has a writer for
SUPPORTED_OUTPUT_FORMATS == {"csv", "json", "parquet"}

\* the sample the generate requests load, and what their sources may hold
SampleGen == [c \in ColNames |->
                IF c = "age" THEN <<Num(1), Num(2)>>
                ELSE <<Str(<<"a">>), Str(<<"a">>)>>]

GenContents == {Content(SampleGen), Bulk(0, 2, 0), Bulk(MAX_SAMPLE_ROWS + 1, 2, 1)}

GenSources == { [file_path |-> NONE, inline_data |-> NONE, db_connection |-> NONE,
                 table_name |-> NONE],
                [file_path |-> "data.csv", inline_data |-> NONE, db_connection |-> NONE,
                 table_name |-> NONE],
                [file_path |-> "data.csv", inline_data |-> "[rows]", db_connection |-> NONE,
                 table_name |-> NONE],
                [file_path |-> "DATA.CSV", inline_data |-> NONE, db_connection |-> NONE,
                 table_name |-> NONE],
                [file_path |-> NONE, inline_data |-> NONE,
                 db_connection |-> "sqlite:///x.db", table_name |-> "users"] }

GenConstraints == { EmptyCfg,
                    ("age" :> (("min" :> 2) @@ ("max" :> 3))),
                    ("email" :> ("unique" :> TRUE)) }

GenRowCounts == (1..MaxRows) \cup {MAX_GENERATED_ROWS, MAX_GENERATED_ROWS + 1}

CustomPath == <<"custom", "out", "csv">>

\* DEFAULT_OUTPUT_DIR / f"synthetic_{timestamp}.{output_format}"
DefaultPath(timestamp, fmt) == <<"synthetic_output", timestamp, fmt>>

GenRequests ==
    { [file_path |-> src.file_path, inline_data |-> src.inline_data,
       db_connection |-> src.db_connection, table_name |-> src.table_name,
       synthesizer |-> name, num_rows |-> n, constraints |-> cons,
       output_format |-> fmt, output_path |-> path] :
         src \in GenSources, name \in SynthNames, n \in GenRowCounts,
         cons \in GenConstraints, fmt \in {"csv", "xml"},
         path \in {NONE, "custom/out.csv"} }

GenFailed(msg) == [status |-> "error", err |-> msg, file_path |-> NONE,
                   rows_generated |-> 0, columns |-> 0]

\* a request arrives
GenRequest(r) ==
    /\ pc = "idle"
    /\ req' = r
    /\ pc' = "check_rows"
    /\ UNCHANGED <<files, response, steps, synthVars, loadVars, scoreVars>>

\* variant: the ceiling compared one too high
rows_exceed_maximum_late(n) == n > MAX_GENERATED_ROWS + 1

\* num_rows > MAX_GENERATED_ROWS
rows_exceed_maximum(n) == n > MAX_GENERATED_ROWS

\* the num_rows ceiling, first statement of the handler
GenCheckRows ==
    /\ pc = "check_rows"
    /\ IF rows_exceed_maximum(req.num_rows)
       THEN /\ pc' = "failed"
            /\ response' = GenFailed("Requested rows exceeds maximum")
       ELSE /\ pc' = "load"
            /\ UNCHANGED response
    /\ UNCHANGED <<req, files, steps, synthVars, loadVars, scoreVars>>

\* df = await load_data(...)
GenLoad ==
    /\ pc = "load"
    /\ LoadCall([file_path |-> req.file_path, inline_data |-> req.inline_data,
                 db_connection |-> req.db_connection, table_name |-> req.table_name],
                GenContents)
    /\ IF loadOut'.status = "ok"
       THEN pc' = "create" /\ UNCHANGED response
       ELSE pc' = "failed" /\ response' = GenFailed(loadOut'.err)
    /\ UNCHANGED <<req, files, synthVars, scoreVars>>

\* synth = create_synthesizer(synthesizer, constraints)
GenCreate ==
    /\ pc = "create"
    /\ CreateSynthesizer(req.synthesizer, req.constraints)
    /\ IF out'.status = "ok"
       THEN pc' = "fit" /\ UNCHANGED response
       ELSE pc' = "failed" /\ response' = GenFailed(out'.err)
    /\ UNCHANGED <<req, files, steps, loadVars, scoreVars>>

\* synth.fit(df)
GenFit ==
    /\ pc = "fit"
    /\ \E outcome \in FitOutcomes : FitCall(loadOut.content.table, outcome)
    /\ steps' = steps \o <<"fit">>
    /\ IF out'.status = "ok"
       THEN pc' = "sample" /\ UNCHANGED response
       ELSE pc' = "failed" /\ response' = GenFailed(out'.err)
    /\ UNCHANGED <<req, files, loadVars, scoreVars>>

\* synthetic_df = synth.sample(num_rows); tables of more than MaxRows rows
\* are not built
GenSample ==
    /\ pc = "sample"
    /\ req.num_rows <= MaxRows
    /\ SampleCall(req.num_rows)
    /\ steps' = steps \o <<"sample">>
                 \o (IF RunsPostConstraints(synthType) THEN <<"repair">> ELSE << >>)
    /\ pc' = "persist"
    /\ UNCHANGED <<req, files, response, loadVars, scoreVars>>

\* the output path, mkdir, and the write in the requested format
GenPersist ==
    /\ pc = "persist"
    /\ LET path == IF req.output_path = NONE
                   THEN DefaultPath("t0", req.output_format)
                   ELSE CustomPath
       IN IF req.output_format \in SUPPORTED_OUTPUT_FORMATS
          THEN /\ files' = (path :> out.table) @@ files
               /\ steps' = steps \o <<"mkdir", "write">>
               /\ pc' = "score"
               /\ UNCHANGED response
          ELSE /\ steps' = steps \o <<"mkdir">>
               /\ pc' = "failed"
               /\ response' = GenFailed("Unsupported output format")
               /\ UNCHANGED files
    /\ UNCHANGED <<req, synthVars, loadVars, scoreVars>>

\* quality_report = generate_quality_report(df, synthetic_df); return
GenScore ==
    /\ pc = "score"
    /\ steps' = steps \o <<"score">>
    /\ pc' = "done"
    /\ response' = [status |-> "ok", err |-> "",
                    file_path |-> IF req.output_path = NONE
                                  THEN DefaultPath("t0", req.output_format)
                                  ELSE CustomPath,
                    rows_generated |-> NRows(out.table),
                    columns |-> Cardinality(Columns(out.table))]
    /\ UNCHANGED <<req, files, synthVars, loadVars, scoreVars>>


-----------------------------------------------------------------------------
(* validators/quality_validator.py *)
(* Scores are whole thousandths: 1000 is the score 1.0, 500 the neutral 0.5. *)

ScoreGrid == {0, 300, 1000}

\* what a metric computation of the libraries does: returns a value, returns
\* not-a-number, or raises
Val(v) == [kind |-> "value", v |-> v]
Nan == [kind |-> "nan", v |-> 0]
Raises == [kind |-> "raises", v |-> 0]

\* the (real, synthetic) table pairs scored: column -> dtype on each side
Schema2(c1, t1, c2, t2) == (c1 :> t1) @@ (c2 :> t2)
SchemaPairs ==
    { <<Schema2("age", "int64", "email", "object"), Schema2("age", "int64", "email", "object")>>,
      <<Schema2("age", "int64", "income", "float64"), Schema2("age", "int64", "income", "float64")>>,
      <<Schema2("age", "int64", "email", "object"), ("age" :> "int64")>>,
      <<("age" :> "int64"), Schema2("age", "float64", "extra", "object")>>,
      <<("email" :> "object"), ("email" :> "object")>>,
      <<Schema2("age", "int64", "income", "float64"), ("age" :> "int64")>>,
      <<("age" :> "int64"), ("age" :> "object")>>,
      <<("age" :> "int64"), ("email" :> "object")>> }

\* rows of the synthetic table scored
SynthRowCount == 4

\* select_dtypes(include=["int64", "float64"]).columns
NumericCols(schema) == {c \in DOMAIN schema : schema[c] \in {"int64", "float64"}}

\* _compare_statistics is outside every try block: the mean of a shared column
\* that is numeric in the real table and holds strings in the synthetic one
\* raises, and the exception leaves generate_quality_report
StatOutcomes(real, synth) ==
    IF \E c \in DOMAIN real \cap DOMAIN synth :
          c \in NumericCols(real) /\ synth[c] = "object"
    THEN {"ok", "raises"} ELSE {"ok"}

\* variant: validity decided on the column names alone
validate_schema_names_only(real, synth) ==
    LET missing == DOMAIN real \ DOMAIN synth
        extra   == DOMAIN synth \ DOMAIN real
        mism    == {c \in DOMAIN real \cap DOMAIN synth : real[c] # synth[c]}
    IN [valid |-> missing = {} /\ extra = {},
        missing_columns |-> missing, extra_columns |-> extra, type_mismatches |-> mism]

\* _validate_schema
validate_schema(real, synth) ==
    LET missing == DOMAIN real \ DOMAIN synth
        extra   == DOMAIN synth \ DOMAIN real
        mism    == {c \in DOMAIN real \cap DOMAIN synth : real[c] # synth[c]}
    IN [valid |-> missing = {} /\ extra = {} /\ mism = {},
        missing_columns |-> missing, extra_columns |-> extra, type_mismatches |-> mism]

\* _compute_column_metrics: one score per shared column
compute_column_metrics(real, synth, colOut) ==
    [c \in DOMAIN real \cap DOMAIN synth |->
        CASE colOut[c].kind = "raises" -> 500
          [] colOut[c].kind = "nan" -> 0
          [] OTHER -> colOut[c].v]

\* _analyze_correlations
analyze_correlations(real, o) ==
    IF Cardinality(NumericCols(real)) < 2
    THEN ("score" :> 1000) @@ ("note" :> "Not enough numeric columns")
    ELSE IF o.kind = "raises"
    THEN ("score" :> 500) @@ ("error" :> "raised")
    ELSE ("score" :> IF o.kind = "nan" THEN 500 ELSE o.v)
         @@ ("numeric_columns_analyzed" :> Cardinality(NumericCols(real)))

\* variant: the distance is scaled but not capped
compute_privacy_score_uncapped(real, o) ==
    IF NumericCols(real) = {} THEN 1000
    ELSE IF o.kind = "raises" THEN 500
    ELSE o.v

\* _compute_privacy_score; o.v is the average minimum distance in hundredths,
\* so that avg / 10 is o.v thousandths
compute_privacy_score(real, o) ==
    IF NumericCols(real) = {} THEN 1000
    ELSE IF o.kind = "raises" THEN 500
    ELSE IF o.v < 1000 THEN o.v ELSE 1000

\* _compute_diversity_score; o.v is the number of duplicated rows
compute_diversity_score(o) ==
    IF o.kind = "raises" THEN 500
    ELSE 1000 - (1000 * o.v) \div SynthRowCount

\* the columns of the tables scored, and a common denominator for the mean
\* of up to that many column scores
ScoreCols == {"age", "email", "income", "extra"}
RECURSIVE Factorial(_)
Factorial(n) == IF n = 0 THEN 1 ELSE n * Factorial(n - 1)
ColDen == Factorial(Cardinality(ScoreCols))

\* the overall quality is held exactly, in units of 1 / Unit
Unit == 100000 * ColDen

RECURSIVE SumOver(_, _)
SumOver(f, cols) == IF cols = {} THEN 0
                    ELSE LET c == CHOOSE x \in cols : TRUE
                         IN f[c] + SumOver(f, cols \ {c})

\* variant: the aggregate score weighted 0.5 instead of 0.4
calculate_overall_quality_heavy(metrics) ==
    LET cm == IF "column_metrics" \in DOMAIN metrics THEN metrics["column_metrics"]
              ELSE [c \in {} |-> 0]
        n  == Cardinality(DOMAIN cm)
        scores ==
            (IF "sdmetrics_score" \in DOMAIN metrics
             THEN <<metrics["sdmetrics_score"] * 50 * ColDen>> ELSE << >>)
            \o (IF n > 0 THEN <<SumOver(cm, DOMAIN cm) * 30 * (ColDen \div n)>> ELSE << >>)
            \o (IF "correlation" \in DOMAIN metrics /\ "score" \in DOMAIN metrics["correlation"]
                THEN <<metrics["correlation"]["score"] * 15 * ColDen>> ELSE << >>)
            \o (IF "privacy_score" \in DOMAIN metrics
                THEN <<metrics["privacy_score"] * 10 * ColDen>> ELSE << >>)
            \o (IF "diversity_score" \in DOMAIN metrics
                THEN <<metrics["diversity_score"] * 5 * ColDen>> ELSE << >>)
    IN IF scores = << >> THEN Unit \div 2
       ELSE SumOver(scores, DOMAIN scores)

\* _calculate_overall_quality: the weighted terms of the metrics present,
\* summed; 0.5 when there is none
calculate_overall_quality(metrics) ==
    LET cm == IF "column_metrics" \in DOMAIN metrics THEN metrics["column_metrics"]
              ELSE [c \in {} |-> 0]
        n  == Cardinality(DOMAIN cm)
        scores ==
            (IF "sdmetrics_score" \in DOMAIN metrics
             THEN <<metrics["sdmetrics_score"] * 40 * ColDen>> ELSE << >>)
            \o (IF n > 0 THEN <<SumOver(cm, DOMAIN cm) * 30 * (ColDen \div n)>> ELSE << >>)
            \o (IF "correlation" \in DOMAIN metrics /\ "score" \in DOMAIN metrics["correlation"]
                THEN <<metrics["correlation"]["score"] * 15 * ColDen>> ELSE << >>)
            \o (IF "privacy_score" \in DOMAIN metrics
                THEN <<metrics["privacy_score"] * 10 * ColDen>> ELSE << >>)
            \o (IF "diversity_score" \in DOMAIN metrics
                THEN <<metrics["diversity_score"] * 5 * ColDen>> ELSE << >>)
    IN IF scores = << >> THEN Unit \div 2
       ELSE SumOver(scores, DOMAIN scores)

\* round(overall_quality, 3), in thousandths
Round3(x) ==
    LET u == Unit \div 1000
        q == x \div u
        r == x % u
    IN IF 2 * r < u THEN q
       ELSE IF 2 * r > u THEN q + 1
       ELSE IF q % 2 = 0 THEN q ELSE q + 1

\* MIN_QUALITY_SCORE and QUALITY_SCORE_WARNING_THRESHOLD, in thousandths
MIN_QUALITY_SCORE == 500
QUALITY_SCORE_WARNING_THRESHOLD == 700

\* variant: the thresholds are applied to the rounded score
threshold_warnings_on_rounded(overall) ==
    IF Round3(overall) < MIN_QUALITY_SCORE
    THEN <<"Quality score is below minimum threshold">>
    ELSE IF Round3(overall) < QUALITY_SCORE_WARNING_THRESHOLD
    THEN <<"Quality score is below recommended threshold">>
    ELSE << >>

\* the warnings generate_quality_report appends for the overall quality, which
\* it compares unrounded with the two thresholds (if / elif)
threshold_warnings(overall) ==
    IF overall < MIN_QUALITY_SCORE * (Unit \div 1000)
    THEN <<"Quality score is below minimum threshold">>
    ELSE IF overall < QUALITY_SCORE_WARNING_THRESHOLD * (Unit \div 1000)
    THEN <<"Quality score is below recommended threshold">>
    ELSE << >>

\* generate_quality_report
generate_quality_report(in) ==
    LET schema == validate_schema(in.real, in.synth)
        w1 == IF ~schema.valid THEN <<"Schema mismatch between real and synthetic data">>
              ELSE << >>
        m1 == ("schema_validation" :> schema)
              @@ ("column_metrics" :> compute_column_metrics(in.real, in.synth, in.colOut))
              @@ ("correlation" :> analyze_correlations(in.real, in.corrOut))
        \* the try block: the score is stored before the properties are read
        m2 == IF in.sdOut.kind \in {"value", "raises_late"}
              THEN ("sdmetrics_score" :> in.sdOut.v) @@ m1 ELSE m1
        w2 == IF in.sdOut.kind # "value"
              THEN w1 \o <<"SDMetrics quality report failed">> ELSE w1
        metrics == ("privacy_score" :> compute_privacy_score(in.real, in.privOut))
                   @@ ("diversity_score" :> compute_diversity_score(in.divOut))
                   @@ m2
        overall == calculate_overall_quality(metrics)
        w3 == w2 \o threshold_warnings(overall)
    IN IF in.statOut = "raises"
       THEN [status |-> "raised", overall_score |-> 0, overall |-> 0,
             metrics |-> [k \in {} |-> 0], warnings |-> << >>, schema_valid |-> schema.valid]
       ELSE
       [status |-> "returned", overall_score |-> Round3(overall), overall |-> overall,
        metrics |-> metrics, warnings |-> w3, schema_valid |-> schema.valid]

NoScoreIn == [real |-> NoSchema, synth |-> NoSchema, statOut |-> "ok", colOut |-> [c \in {} |-> Nan],
              corrOut |-> Nan, sdOut |-> Nan, privOut |-> Nan, divOut |-> Nan]
NoReport == [status |-> "none", overall_score |-> 0, overall |-> 0,
             metrics |-> [k \in {} |-> 0], warnings |-> << >>, schema_valid |-> FALSE]

\* a column's score computation; 0.999 is a score that brings the overall
\* quality within half a thousandth of a threshold
ColOutcomes == {Raises, Nan} \cup {Val(v) : v \in ScoreGrid \cup {999}}

\* the correlation computation: not run with fewer than two numeric columns;
\* raises (KeyError) when the synthetic table lacks one of them
CorrOutcomes(real, synth) ==
    IF Cardinality(NumericCols(real)) < 2 THEN {Val(0)}
    ELSE IF ~(NumericCols(real) \subseteq DOMAIN synth) THEN {Raises}
    ELSE ColOutcomes

\* QualityReport: generate raises, or the score is read and get_properties
\* raises, or both succeed
SdOutcomes == {Raises, [kind |-> "raises_late", v |-> 300]}
              \cup {Val(v) : v \in ScoreGrid \cup {250}}

PrivOutcomes(real, synth) ==
    IF NumericCols(real) = {} THEN {Val(0)}
    ELSE IF ~(NumericCols(real) \subseteq DOMAIN synth) THEN {Raises}
    ELSE {Raises} \cup {Val(v) : v \in {0, 250, 1000, 2500}}

DivOutcomes == {Raises, Val(0), Val(1)}

ScoreCall(in) ==
    /\ report.status = "none"
    /\ scoreIn' = in
    /\ report' = generate_quality_report(in)
    /\ UNCHANGED <<calcIn, calcOut>>

Score ==
    \E pair \in SchemaPairs :
      \E statOut \in StatOutcomes(pair[1], pair[2]),
         colOut \in [DOMAIN pair[1] \cap DOMAIN pair[2] -> ColOutcomes],
         corrOut \in CorrOutcomes(pair[1], pair[2]), sdOut \in SdOutcomes,
         privOut \in PrivOutcomes(pair[1], pair[2]), divOut \in DivOutcomes :
           ScoreCall([real |-> pair[1], synth |-> pair[2], statOut |-> statOut,
                      colOut |-> colOut,
                      corrOut |-> corrOut, sdOut |-> sdOut, privOut |-> privOut,
                      divOut |-> divOut])

\* the metrics dicts _calculate_overall_quality is applied to on its own: any
\* subset of the five keys, the correlation entry with or without a score
MetricDicts ==
    LET opt(key, vals) == {[k \in {} |-> 0]} \cup {(key :> v) : v \in vals}
        colDicts == {[c \in {} |-> 0]}
                    \cup {("age" :> a) : a \in ScoreGrid}
                    \cup {("age" :> a) @@ ("email" :> e) : a \in ScoreGrid, e \in ScoreGrid}
        corrDicts == {("error" :> "raised")} \cup {("score" :> v) : v \in ScoreGrid}
    IN { a @@ b @@ c @@ d @@ e :
           a \in opt("sdmetrics_score", ScoreGrid),
           b \in opt("column_metrics", colDicts),
           c \in opt("correlation", corrDicts),
           d \in opt("privacy_score", ScoreGrid),
           e \in opt("diversity_score", ScoreGrid) }

NoCalc == [k \in {} |-> 0]

CalcCall(m) ==
    /\ calcOut = -1
    /\ calcIn' = m
    /\ calcOut' = calculate_overall_quality(m)
    /\ UNCHANGED <<scoreIn, report>>

Calc == \E m \in MetricDicts : CalcCall(m)

ScoreIdle == scoreIn = NoScoreIn /\ report = NoReport /\ calcIn = NoCalc /\ calcOut = -1

-----------------------------------------------------------------------------
(* ConstraintsHandler._build_column_constraints, applied to one leaf rule set *)

\* a key left out of a dict, or present with one of the values
Opt(key, vals) == {EmptyCfg} \cup {(key :> v) : v \in vals}

\* the leaf rule sets compiled: each of min, max, strict and unique absent or
\* present, the bounds zero or not
LeafRuleSets ==
    { a @@ b @@ c @@ d : a \in Opt("min", {0, 1}), b \in Opt("max", {0, 3}),
                         c \in Opt("strict", BOOLEAN), d \in Opt("unique", BOOLEAN) }

NoCompile == [done |-> FALSE, column |-> "", config |-> EmptyCfg]

CompileCall(column, config) ==
    /\ ~compileIn.done
    /\ compileIn' = [done |-> TRUE, column |-> column, config |-> config]
    /\ compileOut' = build_column_constraints(column, config)

Compile == \E column \in ColNames, config \in LeafRuleSets : CompileCall(column, config)

CompileIdle == compileIn = NoCompile /\ compileOut = << >>

-----------------------------------------------------------------------------
(* One call on a ConstraintsHandler *)

MaxRuleRows == 2

\* a rule of the relationships list
Inequality(low, high) ==
    ("type" :> "inequality") @@ ("low_column" :> low) @@ ("high_column" :> high)
CustomFormula(column, formula) ==
    ("type" :> "custom_formula") @@ ("column" :> column) @@ ("formula" :> formula)

\* column names used in rules: two columns of the sample and one it lacks
RuleColNames == {"price", "total", "missing"}

RelationshipRules ==
    {Inequality(l, h) : l, h \in RuleColNames}
    \cup {("type" :> "inequality") @@ ("low_column" :> "price")}
    \cup {CustomFormula(c, Times(f, 2)) : c \in {"total", "missing"},
                                          f \in {"price", "missing"}}
    \cup {("type" :> "custom_formula") @@ ("column" :> "total")}
    \cup {("type" :> "range")}

\* the lists of at most two rules
RelationshipLists ==
    {<< >>} \cup {<<r>> : r \in RelationshipRules}
    \cup {<<r, q>> : r, q \in RelationshipRules}

\* the dependencies group
Dependency(column, depends_on) == ("column" :> column) @@ ("depends_on" :> depends_on)

DependencyGroups ==
    {Dependency(c, d) : c \in {"total", "missing"},
                        d \in {<< >>, <<"price">>, <<"missing">>, <<"price", "missing">>}}
    \cup {("depends_on" :> <<"price">>)}

\* constraint configurations holding relationships and dependencies
RuleConfigs ==
    {("relationships" :> r) : r \in RelationshipLists}
    \cup {("dependencies" :> d) : d \in DependencyGroups}
    \cup {("relationships" :> <<r>>) @@ ("dependencies" :> d) :
             r \in RelationshipRules, d \in DependencyGroups}

\* tables of n rows whose cells count two-hundredths (200 is 1.0): price is
\* 1.0 and total lies within 0.01 of 2.0 on either side
TotalCells == {Num(v) : v \in 398..402}

FineTables(n) ==
    {("price" :> [i \in 1..n |-> Num(200)]) @@ ("total" :> t) : t \in [1..n -> TotalCells]}

\* a table without the column the formula reads, or without its target
WithoutColumn(df, col) == [c \in Columns(df) \ {col} |-> df[c]]

RuleTables ==
    UNION {FineTables(n) : n \in 0..MaxRuleRows}
    \cup {WithoutColumn(df, "price") : df \in FineTables(1)}
    \cup {WithoutColumn(df, "total") : df \in FineTables(1)}

FormulaConstraints ==
    {create_formula_constraint(c, f) : c \in {"total", "missing"},
                                       f \in {Times("price", 2), Times("missing", 2),
                                              NoFormula}}

\* constraints of the library, as build_constraints emits them
LibraryConstraints ==
    {[kind |-> "Inequality", low_column_name |-> "price", high_column_name |-> "total"],
     [kind |-> "FixedCombinations", column_names |-> <<"price", "total">>]}

\* what is_valid of a library constraint does on a table of n rows
LibraryOutcomes(n) ==
    {[raises |-> TRUE, valid |-> << >>]}
    \cup {[raises |-> FALSE, valid |-> v] : v \in [1..n -> BOOLEAN]}

CompiledConstraints ==
    {create_formula_constraint("total", Times("price", 2)),
     create_formula_constraint("total", Times("missing", 2))}
    \cup LibraryConstraints

\* a sample whose total is twice its price, and the configurations asking for
\* that with a custom_formula rule
SampleTotals == ("price" :> <<Num(1), Num(2)>>) @@ ("total" :> <<Num(2), Num(4)>>)

TotalIsTwicePrice == CustomFormula("total", Times("price", 2))

FormulaConfigs == { ("relationships" :> <<TotalIsTwicePrice>>),
                    ("relationships" :> <<Inequality("price", "total"), TotalIsTwicePrice>>) }

NoRule == [op |-> "none"]

RuleIdle == ruleIn = NoRule /\ ruleOut = [status |-> "none"]

\* handler.build_constraints(df)
BuildCall(config, df) ==
    /\ ruleIn = NoRule
    /\ ruleIn' = [op |-> "build_constraints", config |-> config, columns |-> Columns(df)]
    /\ ruleOut' = [status |-> "ok", constraints |-> build_constraints(config, df)]

\* constraint.is_valid(table_data) of a formula constraint: its try / except
\* Exception covers the whole body
IsValidCall(c, df) ==
    /\ ruleIn = NoRule
    /\ ruleIn' = [op |-> "is_valid", constraint |-> c, table |-> df]
    /\ ruleOut' = [status |-> "ok", valid |-> formula_is_valid(c, df, 200)]

\* handler.validate_constraints(synthetic_df), the handler holding sdv
ValidateConstraintsCall(sdv, df, libs) ==
    /\ ruleIn = NoRule
    /\ ruleIn' = [op |-> "validate_constraints", sdv |-> sdv, table |-> df, libs |-> libs]
    /\ ruleOut' = [status |-> "ok", result |-> validate_constraints(sdv, df, libs, 200)]

-----------------------------------------------------------------------------
(* tools/analyze.py: analyze_sample_data *)

MaxAnaCols == 4

\* what the analysed source may hold: row count, column count and how many
\* of the columns are int64 or float64
AnaRowCounts == {1, 2, 10}
AnaContents ==
    { x \in [rows : AnaRowCounts, cols : 0..MaxAnaCols, mb : {0}, table : {NoTable},
             numeric : 0..MaxAnaCols] : x.numeric <= x.cols }

AnaSources == { NoArgs,
                [NoArgs EXCEPT !.file_path = "data.csv"],
                [NoArgs EXCEPT !.inline_data = "[rows]"],
                [NoArgs EXCEPT !.db_connection = "sqlite:///x.db", !.table_name = "users"] }

\* variant: the numeric columns counted against the rows of the sample
synthesizer_recommendation_by_rows(c) ==
    IF 10 * c.numeric < 3 * c.rows THEN "tvae" ELSE "gaussian_copula"

\* len(numeric_cols) / len(df.columns) < 0.3, on a table with columns
synthesizer_recommendation(c) ==
    IF 10 * c.numeric < 3 * c.cols THEN "tvae" ELSE "gaussian_copula"

AnaFailed(msg) == [status |-> "error", err |-> msg, row_count |-> 0, column_count |-> 0,
                   recommendations |-> ""]
NoAnalysis == [status |-> "none", err |-> "", row_count |-> 0, column_count |-> 0,
               recommendations |-> ""]
NoAnaIn == [args |-> NoArgs, content |-> Bulk(0, 0, 0)]

\* the handler: load, the limits, the per-column pass, the recommendation
AnalyzeCall(a, ok, content) ==
    /\ anaOut.status = "none"
    /\ LET r == load_data(a, 1, ok, content) IN
       /\ anaIn' = [args |-> a, content |-> content]
       /\ steps' = steps \o r.io
       /\ anaOut' =
            IF r.res.status # "ok" THEN AnaFailed(r.res.err)
            ELSE IF r.res.content.rows > MAX_SAMPLE_ROWS
            THEN AnaFailed("Sample data exceeds maximum rows")
            ELSE IF r.res.content.mb > MAX_SAMPLE_SIZE_MB
            THEN AnaFailed("Sample data exceeds maximum size")
            ELSE IF r.res.content.cols = 0
            THEN AnaFailed("division by zero")
            ELSE [status |-> "ok", err |-> "", row_count |-> r.res.content.rows,
                  column_count |-> r.res.content.cols,
                  recommendations |-> synthesizer_recommendation(r.res.content)]

Analyze == \E a \in AnaSources, ok \in BOOLEAN, content \in AnaContents :
              AnalyzeCall(a, ok, content)

AnaIdle == anaIn = NoAnaIn /\ anaOut = NoAnalysis

-----------------------------------------------------------------------------
(* tools/validate.py: validate_synthetic_quality *)

\* a file as the handler sees it: Path(p).suffix as written, whether the
\* pandas reader succeeds on it, and the column types of the table read
File(path, suffix, ok, schema) ==
    [path |-> path, suffix |-> suffix, ok |-> ok, schema |-> schema]

NoFile == File(NONE, "", FALSE, NoSchema)

\* the files named in validate calls
ValFiles ==
    { File("real.csv", ".csv", TRUE, Schema2("age", "int64", "email", "object")),
      File("synth.csv", ".csv", TRUE, Schema2("age", "int64", "email", "object")),
      File("synth.json", ".json", TRUE, Schema2("age", "float64", "email", "object")),
      File("synth.parquet", ".parquet", TRUE, ("age" :> "int64")),
      File("broken.csv", ".csv", FALSE, NoSchema),
      File("notes.txt", ".txt", TRUE, Schema2("age", "int64", "email", "object")),
      File("REAL.CSV", ".CSV", TRUE, Schema2("age", "int64", "email", "object")) }

\* the suffixes the handler compares Path.suffix with
VALIDATE_SUFFIXES == {".csv", ".json", ".parquet"}

\* what the metric computations do in a validate call
FewOutcomes == {Raises, Val(0), Val(1000)}
ValOutcomes(real, synth) ==
    { [real |-> real, synth |-> synth, statOut |-> st,
       colOut |-> [c \in DOMAIN real \cap DOMAIN synth |-> o],
       corrOut |-> co, sdOut |-> sd, privOut |-> pr, divOut |-> Val(0)] :
         st \in StatOutcomes(real, synth), o \in {Raises, Val(1000)},
         co \in CorrOutcomes(real, synth) \cap FewOutcomes,
         sd \in {Raises, Val(1000)},
         pr \in PrivOutcomes(real, synth) \cap FewOutcomes }

ValFailed(msg) == [status |-> "error", err |-> msg, schema_valid |-> FALSE,
                   overall_score |-> 0]
NoValidation == [status |-> "none", err |-> "", schema_valid |-> FALSE, overall_score |-> 0]

\* the handler: the outcome, the reads done in order, and whether the scorer
\* ran; `in` is what the scorer is handed when it runs
validate_synthetic_quality(original, synthetic, in) ==
    IF original.suffix \notin VALIDATE_SUFFIXES
    THEN [res |-> ValFailed("Unsupported file format"), io |-> << >>, scored |-> FALSE]
    ELSE IF ~original.ok
    THEN [res |-> ValFailed("read failed"), io |-> <<"read_original">>, scored |-> FALSE]
    ELSE IF synthetic.suffix \notin VALIDATE_SUFFIXES
    THEN [res |-> ValFailed("Unsupported file format"), io |-> <<"read_original">>,
          scored |-> FALSE]
    ELSE IF ~synthetic.ok
    THEN [res |-> ValFailed("read failed"),
          io |-> <<"read_original", "read_synthetic">>, scored |-> FALSE]
    ELSE LET rep == generate_quality_report(in) IN
         [res |-> IF rep.status = "raised" THEN ValFailed("statistics failed")
                  ELSE [status |-> "ok", err |-> "", schema_valid |-> rep.schema_valid,
                        overall_score |-> rep.overall_score],
          io |-> <<"read_original", "read_synthetic", "score">>, scored |-> TRUE]

ValidateCall(original, synthetic) ==
    /\ valOut.status = "none"
    /\ \E in \in ValOutcomes(original.schema, synthetic.schema) :
          LET r == validate_synthetic_quality(original, synthetic, in) IN
          /\ valArgs' = [original |-> original, synthetic |-> synthetic]
          /\ valOut' = r.res
          /\ steps' = steps \o r.io
          /\ IF r.scored
             THEN scoreIn' = in /\ report' = generate_quality_report(in)
             ELSE UNCHANGED <<scoreIn, report>>
    /\ UNCHANGED <<calcIn, calcOut>>

Validate == \E original \in ValFiles, synthetic \in ValFiles :
               ValidateCall(original, synthetic)

\* the column types a pandas reader infers for a table written by generate
ReadSchema(df) == [c \in Columns(df) |-> IF IsNumeric(df[c]) THEN "int64" ELSE "object"]

\* Path(p).suffix as written (the loader lowers it, the validate handler
\* does not)
RawSuffix(path) == IF path = "DATA.CSV" THEN ".CSV" ELSE FileSuffix(path)

\* the suffix of an output path
OutputSuffix(path) == CASE path[3] = "csv" -> ".csv"
                        [] path[3] = "json" -> ".json"
                        [] path[3] = "parquet" -> ".parquet"
                        [] OTHER -> ".other"

\* validate called on the sample file of a completed generate request and
\* on the file that request wrote
ValidateOwnOutput ==
    /\ pc = "done"
    /\ Truthy(req.file_path)
    /\ ValidateCall(File(req.file_path, RawSuffix(req.file_path), TRUE,
                         ReadSchema(loadOut.content.table)),
                    File(response.file_path, OutputSuffix(response.file_path), TRUE,
                         ReadSchema(files[response.file_path])))
    /\ UNCHANGED <<synthVars, loadVars, genVars>>

ValIdle == valArgs = [original |-> NoFile, synthetic |-> NoFile] /\ valOut = NoValidation
-----------------------------------------------------------------------------
(* server.py: call_tool invocations on the single-threaded event loop.  A
   coroutine holds the loop's thread from the moment it is scheduled until
   it awaits something that suspends it (here: asyncio.to_thread in the
   loader) or returns; nothing else runs on the loop meanwhile. *)

MaxClock == 1

TaskIds == {1, 2}

\* datetime.now().strftime("%Y%m%d_%H%M%S"): one stamp per second
ClockStamps == <<"t0", "t1", "t2", "t3">>
Timestamp(c) == ClockStamps[c + 1]

TOOL_NAMES == {"analyze_sample_data", "generate_synthetic_data",
               "validate_synthetic_quality"}

Call(name, hasArgs, arguments) ==
    [name |-> name, hasArgs |-> hasArgs, arguments |-> arguments]

NoCall == Call("", FALSE, EmptyCfg)

\* the tool calls tried; hasArgs FALSE is `arguments` None
ServeCalls ==
    { Call("analyze_sample_data", TRUE, ("file_path" :> "data.csv")),
      Call("analyze_sample_data", TRUE, EmptyCfg),
      Call("analyze_sample_data", FALSE, EmptyCfg),
      Call("generate_synthetic_data", TRUE, ("file_path" :> "data.csv") @@ ("num_rows" :> 1)),
      Call("generate_synthetic_data", TRUE, ("file_path" :> "data.csv") @@ ("num_rows" :> 2)),
      Call("generate_synthetic_data", TRUE,
           ("file_path" :> "data.csv") @@ ("num_rows" :> 2) @@ ("output_path" :> "custom/out.csv")),
      Call("generate_synthetic_data", TRUE,
           ("file_path" :> "data.csv") @@ ("num_rows" :> 2) @@ ("output_format" :> "xml")),
      Call("generate_synthetic_data", TRUE,
           ("file_path" :> "data.csv") @@ ("num_rows" :> 2) @@ ("synthesizer" :> "ctgan")),
      Call("generate_synthetic_data", TRUE,
           ("file_path" :> "missing.csv") @@ ("num_rows" :> 2)),
      Call("generate_synthetic_data", TRUE,
           ("file_path" :> "data.csv") @@ ("num_rows" :> MAX_GENERATED_ROWS + 1)),
      Call("generate_synthetic_data", TRUE, ("file_path" :> "data.csv")),
      Call("validate_synthetic_quality", TRUE,
           ("original_data_path" :> "real.csv") @@ ("synthetic_data_path" :> "synth.csv")),
      Call("validate_synthetic_quality", TRUE,
           ("original_data_path" :> "real.csv") @@ ("synthetic_data_path" :> "notes.txt")),
      Call("validate_synthetic_quality", TRUE, ("original_data_path" :> "real.csv")),
      Call("no_such_tool", TRUE, EmptyCfg) }

\* how a handler ends: a result returned or an exception raised
NoResult == [file_path |-> << >>, rows |-> 0]
Ret(result) == [ended |-> TRUE, raised |-> FALSE, type |-> "", msg |-> "", result |-> result]
Exc(type, msg) == [ended |-> TRUE, raised |-> TRUE, type |-> type, msg |-> msg,
                   result |-> NoResult]
NoOutcome == [ended |-> FALSE, raised |-> FALSE, type |-> "", msg |-> "", result |-> NoResult]

\* the exception a failed load_data raises
LoadExc(err) == Exc(IF err = "File not found" THEN "FileNotFoundError" ELSE "ValueError", err)

\* the classes of the exceptions raised below call_tool, all of them
\* subclasses of Exception
ExceptionClasses == {"ValueError", "KeyError", "AttributeError", "FileNotFoundError",
                     "Exception"}

NoReply == [status |-> "none", text |-> << >>]

\* variant: the boundary catches ValueError only
call_tool_reply_value_errors_only(o) ==
    IF ~o.raised THEN [status |-> "returned", text |-> <<"result", o.result>>]
    ELSE IF o.type = "ValueError"
    THEN [status |-> "returned", text |-> <<"Error: ", o.msg>>]
    ELSE [status |-> "raised", text |-> << >>]

\* call_tool's try / except Exception around the handler: what goes back to
\* the protocol layer
call_tool_reply(o) ==
    IF ~o.raised THEN [status |-> "returned", text |-> <<"result", o.result>>]
    ELSE IF o.type \in ExceptionClasses
    THEN [status |-> "returned", text |-> <<"Error: ", o.msg>>]
    ELSE [status |-> "raised", text |-> << >>]

NoTask == [pc |-> "none", call |-> NoCall, pending |-> NoLoad, path |-> << >>,
           outcome |-> NoOutcome, reply |-> NoReply]

\* the task after its handler ended with outcome o
Ended(task, o) == [task EXCEPT !.pc = "done", !.outcome = o, !.reply = call_tool_reply(o)]

\* the source arguments call_tool passes on: arguments.get(key)
SourceArgs(arguments) ==
    [file_path |-> Get(arguments, "file_path", NONE),
     inline_data |-> Get(arguments, "inline_data", NONE),
     db_connection |-> Get(arguments, "db_connection", NONE),
     table_name |-> Get(arguments, "table_name", NONE)]

\* load_data reaches one of its `await asyncio.to_thread(...)` calls
Suspends(a, r) ==
    \/ \E i \in DOMAIN r.io : r.io[i] \in {"read_file", "query_db"}
    \/ /\ \E i \in DOMAIN r.io : r.io[i] = "parse_inline"
       /\ a.inline_data \notin {"not json", "{}", "[]"}

FileAt(path) == CHOOSE f \in ValFiles : f.path = path

\* call_tool from its first line to the first suspension or to its end:
\* either the load is under way in a worker thread (`pending` is what it
\* will deliver) or the handler has ended
call_tool_start(call, ok, in) ==
    LET args == call.arguments
        load == load_data(SourceArgs(args), 1, ok, Content(SampleGen))
        started == IF Suspends(SourceArgs(args), load)
                   THEN [suspended |-> TRUE, pending |-> load.res, outcome |-> NoOutcome]
                   ELSE [suspended |-> FALSE, pending |-> NoLoad,
                         outcome |-> LoadExc(load.res.err)]
        ends(o) == [suspended |-> FALSE, pending |-> NoLoad, outcome |-> o]
    IN IF call.name \notin TOOL_NAMES THEN ends(Exc("ValueError", "Unknown tool"))
       ELSE IF ~call.hasArgs
       THEN ends(Exc("AttributeError", "'NoneType' object has no attribute 'get'"))
       ELSE IF call.name = "analyze_sample_data" THEN started
       ELSE IF call.name = "generate_synthetic_data"
       THEN IF "num_rows" \notin DOMAIN args THEN ends(Exc("KeyError", "'num_rows'"))
            ELSE IF rows_exceed_maximum(args["num_rows"])
            THEN ends(Exc("ValueError", "Requested rows exceeds maximum"))
            ELSE started
       ELSE IF "original_data_path" \notin DOMAIN args
       THEN ends(Exc("KeyError", "'original_data_path'"))
       ELSE IF "synthetic_data_path" \notin DOMAIN args
       THEN ends(Exc("KeyError", "'synthetic_data_path'"))
       ELSE LET r == validate_synthetic_quality(FileAt(args["original_data_path"]),
                                                FileAt(args["synthetic_data_path"]), in)
            IN ends(IF r.res.status = "ok" THEN Ret(NoResult)
                    ELSE Exc("ValueError", r.res.err))

\* the loop's thread is free to run a task
LoopFree == running = 0

\* the request loop starts handling a tool call
Begin(t, call) ==
    /\ tasks[t].pc = "none"
    /\ LoopFree
    /\ \E ok \in BOOLEAN,
          in \in ValOutcomes(Schema2("age", "int64", "email", "object"),
                             Schema2("age", "int64", "email", "object")) :
          LET st == call_tool_start(call, ok, in) IN
          tasks' = [tasks EXCEPT ![t] =
                      IF st.suspended
                      THEN [@ EXCEPT !.pc = "loading", !.call = call, !.pending = st.pending]
                      ELSE Ended([@ EXCEPT !.call = call], st.outcome)]
    /\ UNCHANGED <<running, clock, disk>>

\* the worker thread has delivered: the loop resumes the task after its
\* `await load_data(...)`, up to create_synthesizer for a generate request
Resume(t) ==
    /\ tasks[t].pc = "loading"
    /\ LoopFree
    /\ LET task == tasks[t]
           name == Get(task.call.arguments, "synthesizer", "gaussian_copula")
       IN IF task.pending.status # "ok"
          THEN /\ tasks' = [tasks EXCEPT ![t] = Ended(task, LoadExc(task.pending.err))]
               /\ UNCHANGED running
          ELSE IF task.call.name = "analyze_sample_data"
          THEN /\ tasks' = [tasks EXCEPT ![t] = Ended(task, Ret(NoResult))]
               /\ UNCHANGED running
          ELSE IF name \notin SUPPORTED_SYNTHESIZERS
          THEN /\ tasks' = [tasks EXCEPT ![t] =
                              Ended(task, Exc("ValueError", "Unsupported synthesizer"))]
               /\ UNCHANGED running
          ELSE /\ tasks' = [tasks EXCEPT ![t].pc = "fit"]
               /\ running' = t
    /\ UNCHANGED <<clock, disk>>

\* synth.fit(df), on the loop's thread
ServeFit(t) ==
    /\ tasks[t].pc = "fit" /\ running = t
    /\ \E fitRaises \in BOOLEAN :
          IF fitRaises
          THEN /\ tasks' = [tasks EXCEPT ![t] = Ended(@, Exc("Exception", "fit_raises"))]
               /\ running' = 0
          ELSE /\ tasks' = [tasks EXCEPT ![t].pc = "sample"]
               /\ UNCHANGED running
    /\ UNCHANGED <<clock, disk>>

\* synth.sample(num_rows), on the loop's thread
ServeSample(t) ==
    /\ tasks[t].pc = "sample" /\ running = t
    /\ tasks' = [tasks EXCEPT ![t].pc = "persist"]
    /\ UNCHANGED <<running, clock, disk>>

\* the output path, mkdir and the write, on the loop's thread
ServePersist(t) ==
    /\ tasks[t].pc = "persist" /\ running = t
    /\ LET args == tasks[t].call.arguments
           fmt == Get(args, "output_format", "csv")
           path == IF "output_path" \notin DOMAIN args
                   THEN DefaultPath(Timestamp(clock), fmt) ELSE CustomPath
       IN IF fmt \in SUPPORTED_OUTPUT_FORMATS
          THEN /\ disk' = (path :> [by |-> t, rows |-> args["num_rows"]]) @@ disk
               /\ tasks' = [tasks EXCEPT ![t].pc = "score", ![t].path = path]
               /\ UNCHANGED running
          ELSE /\ tasks' = [tasks EXCEPT ![t] =
                              Ended(@, Exc("ValueError", "Unsupported output format"))]
               /\ running' = 0
               /\ UNCHANGED disk
    /\ UNCHANGED clock

\* generate_quality_report and the return, on the loop's thread
ServeScore(t) ==
    /\ tasks[t].pc = "score" /\ running = t
    /\ tasks' = [tasks EXCEPT ![t] =
                   Ended(@, Ret([file_path |-> @.path,
                                 rows |-> @.call.arguments["num_rows"]]))]
    /\ running' = 0
    /\ UNCHANGED <<clock, disk>>

\* a second passes
Tick ==
    /\ clock < MaxClock
    /\ clock' = clock + 1
    /\ UNCHANGED <<tasks, running, disk>>

NoDisk == [p \in {} |-> [by |-> 0, rows |-> 0]]

ServeIdle == tasks = [t \in TaskIds |-> NoTask] /\ running = 0 /\ clock = 0 /\ disk = NoDisk

-----------------------------------------------------------------------------
(* Specifications: one per component, all from the same initial state *)

Init == /\ SynthIdle /\ LoadIdle /\ GenIdle /\ ScoreIdle
        /\ CompileIdle /\ RuleIdle /\ AnaIdle /\ ValIdle /\ ServeIdle
        /\ steps = << >>

\* a wrapper created once, then fit and sample calls in any order
Create == \E name \in SynthNames, cons \in ConstraintConfigs : CreateSynthesizer(name, cons)
Fit == \E data \in Samples, outcome \in FitOutcomes : FitCall(data, outcome)
Sample == \E n \in 1..MaxRows : SampleCall(n)
SynthNext == (Create \/ Fit \/ Sample)
             /\ UNCHANGED <<loadVars, genVars, scoreVars, compileVars, ruleVars, anaVars, valVars,
                            serveVars, steps>>
SpecSynth == Init /\ [][SynthNext]_vars

\* one load_data call
Load == \E fp \in FilePaths, inl \in InlineData, db \in DbConnections, tn \in TableNames :
            LoadCall([file_path |-> fp, inline_data |-> inl, db_connection |-> db,
                      table_name |-> tn], Contents)
LoadNext == Load /\ UNCHANGED <<synthVars, genVars, scoreVars, compileVars, ruleVars, anaVars,
                                  valVars, serveVars>>
SpecLoad == Init /\ [][LoadNext]_vars

\* one generate request
GenArrive == \E r \in GenRequests : GenRequest(r)
GenStep == GenArrive \/ GenCheckRows \/ GenLoad \/ GenCreate \/ GenFit \/ GenSample
           \/ GenPersist \/ GenScore
GenNext == GenStep /\ UNCHANGED <<compileVars, ruleVars, anaVars, valVars, serveVars>>
SpecGen == Init /\ [][GenNext]_vars

\* one generate_quality_report call
ScoreNext == report.status = "none" /\ Score /\ UNCHANGED <<synthVars, loadVars, genVars, compileVars, ruleVars, anaVars,
                                    valVars, serveVars, steps>>
SpecScore == Init /\ [][ScoreNext]_vars

\* one _calculate_overall_quality call
CalcNext == Calc /\ UNCHANGED <<synthVars, loadVars, genVars, compileVars, ruleVars, anaVars,
                                  valVars, serveVars, steps>>
SpecOverall == Init /\ [][CalcNext]_vars

\* one _build_column_constraints call
CompileNext == Compile /\ UNCHANGED <<synthVars, loadVars, genVars, scoreVars, ruleVars,
                                        anaVars, valVars, serveVars, steps>>
SpecCompile == Init /\ [][CompileNext]_vars

\* one call on a constraints handler
RuleBuild == \E config \in RuleConfigs, df \in FineTables(1) \cup
                 {WithoutColumn(t, "total") : t \in FineTables(1)} : BuildCall(config, df)
RuleIsValid == \E c \in FormulaConstraints, df \in RuleTables : IsValidCall(c, df)
RuleValidate ==
    \E df \in RuleTables :
       \E sdv \in {<< >>} \cup {<<c>> : c \in CompiledConstraints}
                  \cup {<<c, e>> : c, e \in CompiledConstraints} :
          \E libs \in [1..Len(sdv) -> LibraryOutcomes(NRows(df))] :
             ValidateConstraintsCall(sdv, df, libs)
RuleNext == ruleIn = NoRule
            /\ (RuleBuild \/ RuleIsValid \/ RuleValidate)
            /\ UNCHANGED <<synthVars, loadVars, genVars, scoreVars, compileVars, anaVars,
                           valVars, serveVars, steps>>
SpecRules == Init /\ [][RuleNext]_vars

\* a wrapper configured with a custom_formula rule: create, then fit and sample
FormulaCreate == \E name \in SUPPORTED_SYNTHESIZERS, cons \in FormulaConfigs :
                    CreateSynthesizer(name, cons)
FormulaFit == \E outcome \in FitOutcomes : FitCall(SampleTotals, outcome)
FormulaNext == (FormulaCreate \/ FormulaFit \/ Sample)
               /\ UNCHANGED <<loadVars, genVars, scoreVars, compileVars, ruleVars, anaVars,
                              valVars, serveVars, steps>>
SpecFormula == Init /\ [][FormulaNext]_vars

\* one analyze_sample_data call
AnaNext == Analyze /\ UNCHANGED <<synthVars, loadVars, genVars, scoreVars, compileVars,
                                   ruleVars, valVars, serveVars>>
SpecAnalyze == Init /\ [][AnaNext]_vars

\* one validate_synthetic_quality call
ValNext == Validate /\ UNCHANGED <<synthVars, loadVars, genVars, compileVars, ruleVars, anaVars,
                                    serveVars>>
SpecValidate == Init /\ [][ValNext]_vars

\* a generate request, then validate on its sample and its output
RoundTripNext == \/ GenNext
                 \/ ValidateOwnOutput /\ UNCHANGED <<compileVars, ruleVars, anaVars, serveVars>>
SpecRoundTrip == Init /\ [][RoundTripNext]_vars

\* two tool calls handled by the server
ServeStep == \/ \E t \in TaskIds, call \in ServeCalls : Begin(t, call)
             \/ \E t \in TaskIds : Resume(t)
             \/ \E t \in TaskIds : ServeFit(t)
             \/ \E t \in TaskIds : ServeSample(t)
             \/ \E t \in TaskIds : ServePersist(t)
             \/ \E t \in TaskIds : ServeScore(t)
             \/ Tick
ServeNext == ServeStep /\ UNCHANGED <<synthVars, loadVars, genVars, scoreVars, compileVars,
                                       ruleVars, anaVars, valVars, steps>>
SpecServe == Init /\ [][ServeNext]_vars

-----------------------------------------------------------------------------
(* Properties of the wrappers *)

SampleReturned == out.call = "sample" /\ out.status = "ok"

\* C1: for either backend, sample(n) called after a fit that returned
\* normally returns a table of exactly n rows whose column set is the column
\* set of the table that was fitted.
C1_SampleShape ==
    (out.call = "sample" /\ fitOk) =>
        /\ out.status = "ok"
        /\ out.hasTable
        /\ NRows(out.table) = numRows
        /\ \A c \in Columns(out.table) : Len(out.table[c]) = numRows
        /\ Columns(out.table) = Columns(fitData)

\* a sample under each backend with a repair that rewrote a cell, on a table
\* of two columns
C1_Witness ==
    /\ SampleReturned /\ fitOk
    /\ synthType = "gaussian_copula"
    /\ Columns(fitData) = ColNames
    /\ numRows = MaxRows
    /\ out.table # raw

\* the value v satisfies the Range rule of the leaf rule set cfg
InRange(v, cfg) ==
    IF Get(cfg, "strict", TRUE)
    THEN cfg["min"] < v /\ v < cfg["max"]
    ELSE cfg["min"] <= v /\ v <= cfg["max"]

\* C2: after the repair pass every value of a column configured with both
\* min and max lies in [min, max], strictly inside when strict is set or
\* left at its default.
C2_RangeAfterRepair ==
    (SampleReturned /\ synthType = "gaussian_copula") =>
        \A c \in DOMAIN constraints \cap Columns(out.table) :
            ("min" \in DOMAIN constraints[c] /\ "max" \in DOMAIN constraints[c]) =>
                \A i \in 1..Len(out.table[c]) :
                    /\ out.table[c][i].t = "num"
                    /\ InRange(out.table[c][i].n, constraints[c])

\* row i holds a value no other row of the column holds
Single(col, i) == \A j \in 1..Len(col) : j # i => col[j] # col[i]

\* C3: after the unique repair of a column that held duplicates no two rows
\* hold the same value, and every value that was no duplicate is unchanged.
\* (Stated for columns without bounds, where the repair reads the backend's
\* column as it is.)
C3_UniqueAfterRepair ==
    (SampleReturned /\ synthType = "gaussian_copula") =>
        \A c \in DOMAIN constraints \cap Columns(raw) :
            ( /\ Get(constraints[c], "unique", FALSE)
              /\ "min" \notin DOMAIN constraints[c]
              /\ "max" \notin DOMAIN constraints[c]
              /\ HasDuplicates(raw[c]) ) =>
                /\ ~HasDuplicates(out.table[c])
                /\ \A i \in 1..Len(raw[c]) :
                      Single(raw[c], i) => out.table[c][i] = raw[c][i]

\* C7: sample on a wrapper on which no fit ever completed fails with the
\* "not fitted" error and returns no table.
C7_SampleBeforeFit ==
    (out.call = "sample" /\ ~everFitted) =>
        /\ out.status = "error"
        /\ out.err = "Synthesizer must be fitted before sampling"
        /\ ~out.hasTable

\* sample refused on a wrapper whose only fit call raised
C7_Witness ==
    /\ out.call = "sample" /\ ~everFitted
    /\ fitData # NoTable
    /\ out.err = "Synthesizer must be fitted before sampling"

-----------------------------------------------------------------------------
(* Properties of load_data *)

\* the sources the call gives: file_path, inline_data, db_connection + table_name
GivenSources(a) ==
    {k \in {"file", "inline", "db"} :
        \/ k = "file" /\ Truthy(a.file_path)
        \/ k = "inline" /\ Truthy(a.inline_data)
        \/ k = "db" /\ Truthy(a.db_connection) /\ Truthy(a.table_name)}

SourceErrors ==
    {"Must provide exactly one of: file_path, inline_data, or (db_connection + table_name)",
     "Provide only one input source: file_path, inline_data, or (db_connection + table_name)"}

LoadDone == loadOut.status # "none"

\* C5: load_data fails with an input error, before touching any source, when
\* no source or more than one source is given, and goes on to load (from
\* the one source given, and from no other) when exactly one is given.
C5_ExactlyOneSource ==
    LoadDone =>
        LET given == GivenSources(loadArgs) IN
        /\ Cardinality(given) # 1 =>
              /\ loadOut.status = "error"
              /\ loadOut.err \in SourceErrors
              /\ steps = <<"validate_sources">>
        /\ Cardinality(given) = 1 =>
              /\ loadOut.err \notin SourceErrors
              /\ Len(steps) >= 2
              /\ "file" \in given =>
                    \A i \in 2..Len(steps) : steps[i] \in {"stat_file", "read_file"}
              /\ "inline" \in given =>
                    \A i \in 2..Len(steps) : steps[i] = "parse_inline"
              /\ "db" \in given =>
                    \A i \in 2..Len(steps) : steps[i] = "query_db"

\* two sources given at once (file_path and inline_data), refused
C5_Witness ==
    /\ LoadDone
    /\ GivenSources(loadArgs) = {"file", "inline"}
    /\ loadOut.status = "error"

\* exactly one source given, with a second one half given, and a table returned
C5_WitnessOne ==
    /\ LoadDone
    /\ GivenSources(loadArgs) = {"inline"}
    /\ Truthy(loadArgs.db_connection)
    /\ loadOut.status = "ok"

-----------------------------------------------------------------------------
(* Properties of the generate request *)

\* the steps of the pipeline that C4 orders
CoreSteps(seq) ==
    SelectSeq(seq, LAMBDA x : x \in {"fit", "sample", "repair", "write", "score"})

\* C4: in every generate request, for either backend, the sampled table goes
\* through the constraint repair after sampling and before it is written, in
\* the order fit, sample, repair, persist, score.
C4_RepairBeforePersist ==
    /\ \A i \in 1..Len(steps) :
          steps[i] = "write" =>
              CoreSteps(SubSeq(steps, 1, i)) = <<"fit", "sample", "repair", "write">>
    /\ pc = "done" =>
          CoreSteps(steps) = <<"fit", "sample", "repair", "write", "score">>

\* the order the copula backend's requests do follow
C4_CopulaOrder ==
    (pc = "done" /\ synthType = "gaussian_copula") =>
        CoreSteps(steps) = <<"fit", "sample", "repair", "write", "score">>

\* the steps that start loading, fitting, sampling or writing
WorkSteps == {"validate_sources", "stat_file", "read_file", "parse_inline", "query_db",
              "fit", "sample", "repair", "mkdir", "write", "score"}

\* C6: a generate request whose row count exceeds MAX_GENERATED_ROWS fails
\* before any load step has started; nothing is loaded, fitted, sampled or
\* written in that request.
C6_CeilingBeforeLoad ==
    req.num_rows > MAX_GENERATED_ROWS =>
        /\ pc \in {"check_rows", "failed"}
        /\ steps = << >>
        /\ loadOut = NoLoad
        /\ synthType = "none"
        /\ files = NoFiles
        /\ pc = "failed" => response.err = "Requested rows exceeds maximum"

\* a request over the ceiling, with one valid source, refused
C6_Witness ==
    /\ req.num_rows = MAX_GENERATED_ROWS + 1
    /\ Truthy(req.file_path) /\ ~Truthy(req.inline_data)
    /\ pc = "failed"
    /\ response.status = "error"

-----------------------------------------------------------------------------
(* Properties of the scorer *)

ReportReturned == report.status = "returned"
SharedCols == DOMAIN scoreIn.real \cap DOMAIN scoreIn.synth

\* C8: for two non-empty tables sharing at least one column, the overall_score
\* of the report returned lies in [0,1] (0..1000 thousandths), whichever of
\* the sub-score computations succeeded or failed.
C8_OverallInUnitInterval ==
    (ReportReturned /\ SharedCols # {})
        => (report.overall_score >= 0 /\ report.overall_score <= 1000
            /\ report.overall >= 0 /\ report.overall <= Unit)

\* a report whose aggregate and correlation computations failed and whose
\* privacy distance is beyond the cap
C8_Witness ==
    /\ ReportReturned /\ SharedCols # {}
    /\ scoreIn.sdOut.kind = "raises"
    /\ Cardinality(NumericCols(scoreIn.real)) >= 2 /\ scoreIn.corrOut.kind = "raises"
    /\ scoreIn.privOut = Val(2500)
    /\ report.overall_score > 0

\* the sub-scores _calculate_overall_quality finds in a metrics dict
Available(m) ==
    [agg  |-> "sdmetrics_score" \in DOMAIN m,
     col  |-> "column_metrics" \in DOMAIN m /\ DOMAIN m["column_metrics"] # {},
     corr |-> "correlation" \in DOMAIN m /\ "score" \in DOMAIN m["correlation"],
     priv |-> "privacy_score" \in DOMAIN m,
     div  |-> "diversity_score" \in DOMAIN m]

\* the weighted sum, in units of 1 / Unit, an absent sub-score adding nothing;
\* the mean of n column scores is their sum over n
WeightedSum(m) ==
    LET a == Available(m)
        n == IF a.col THEN Cardinality(DOMAIN m["column_metrics"]) ELSE 1
    IN ( (IF a.agg THEN 40 * n * m["sdmetrics_score"] ELSE 0)
       + (IF a.col THEN 30 * SumOver(m["column_metrics"], DOMAIN m["column_metrics"]) ELSE 0)
       + (IF a.corr THEN 15 * n * m["correlation"]["score"] ELSE 0)
       + (IF a.priv THEN 10 * n * m["privacy_score"] ELSE 0)
       + (IF a.div THEN 5 * n * m["diversity_score"] ELSE 0) ) * (ColDen \div n)

\* C9: the overall score is 0.40 x aggregate + 0.30 x mean per-column score
\* + 0.15 x correlation + 0.10 x privacy + 0.05 x diversity over the sub-scores
\* available, and is 0.5 when none of the five is available.
C9_WeightedSum ==
    calcOut # -1 =>
        LET a == Available(calcIn)
        IN IF ~(a.agg \/ a.col \/ a.corr \/ a.priv \/ a.div)
           THEN calcOut = Unit \div 2
           ELSE calcOut = WeightedSum(calcIn)

\* all five sub-scores available, the two column scores different
C9_Witness ==
    /\ calcOut # -1
    /\ LET a == Available(calcIn) IN a.agg /\ a.col /\ a.corr /\ a.priv /\ a.div
    /\ DOMAIN calcIn["column_metrics"] = {"age", "email"}
    /\ calcIn["column_metrics"]["age"] # calcIn["column_metrics"]["email"]
    /\ calcIn["sdmetrics_score"] = 300 /\ calcIn["privacy_score"] = 1000
    /\ calcOut = 12 * ColDen * 1000 + 15 * (calcIn["column_metrics"]["age"]
                    + calcIn["column_metrics"]["email"]) * ColDen
                 + 15 * ColDen * calcIn["correlation"]["score"] + 10 * ColDen * 1000
                 + 5 * ColDen * calcIn["diversity_score"]

\* the sub-score computations that failed in the call
FailedAggregate == scoreIn.sdOut.kind \in {"raises", "raises_late"}
FailedColumns == {c \in SharedCols : scoreIn.colOut[c].kind = "raises"}
FailedCorrelation == Cardinality(NumericCols(scoreIn.real)) >= 2
                     /\ scoreIn.corrOut.kind = "raises"
FailedPrivacy == NumericCols(scoreIn.real) # {} /\ scoreIn.privOut.kind = "raises"
FailedDiversity == scoreIn.divOut.kind = "raises"
SomeSubScoreFailed == FailedAggregate \/ FailedColumns # {} \/ FailedCorrelation
                      \/ FailedPrivacy \/ FailedDiversity

FailureWarnings ==
    {i \in DOMAIN report.warnings : report.warnings[i] = "SDMetrics quality report failed"}

\* C10: a sub-score computation that fails leaves the neutral 0.5 as that
\* sub-score, adds a warning to the report's warnings, and the report is
\* still returned.
C10_FailureNeutralAndWarned ==
    (scoreIn # NoScoreIn /\ scoreIn.statOut = "ok" /\ SomeSubScoreFailed) =>
        /\ ReportReturned
        /\ FailureWarnings # {}
        /\ scoreIn.sdOut.kind = "raises" =>
              ("sdmetrics_score" \in DOMAIN report.metrics
               /\ report.metrics["sdmetrics_score"] = 500)
        /\ \A c \in FailedColumns : report.metrics["column_metrics"][c] = 500
        /\ FailedCorrelation => report.metrics["correlation"]["score"] = 500
        /\ FailedPrivacy => report.metrics["privacy_score"] = 500
        /\ FailedDiversity => report.metrics["diversity_score"] = 500

-----------------------------------------------------------------------------
(* Properties of the server boundary and the factory *)

Handled(t) == tasks[t].pc = "done"

\* C11: whatever the tool name and the arguments, a call_tool invocation ends
\* by returning to the protocol layer, and when an error was raised while
\* handling it the text returned is "Error: " followed by the error's message.
C11_CallToolNeverRaises ==
    \A t \in TaskIds :
        /\ tasks[t].reply.status # "raised"
        /\ Handled(t) =>
              /\ tasks[t].reply.status = "returned"
              /\ tasks[t].outcome.raised =>
                    /\ tasks[t].reply.text[1] = "Error: "
                    /\ tasks[t].reply.text[2] = tasks[t].outcome.msg

\* a generate call without num_rows and a call of an unknown tool, both answered
C11_Witness ==
    /\ Handled(1) /\ Handled(2)
    /\ tasks[1].call.name = "generate_synthetic_data"
    /\ tasks[1].outcome.type = "KeyError"
    /\ tasks[1].reply.text = <<"Error: ", "'num_rows'">>
    /\ tasks[2].call.name = "no_such_tool"
    /\ tasks[2].reply.text = <<"Error: ", "Unknown tool">>

\* C12: create_synthesizer maps "gaussian_copula" and "tvae" to their wrappers
\* and fails with the unsupported-synthesizer error for any other name; the
\* wrapper returned is new and unfitted, with no backend model yet.
C12_FactoryMapping ==
    [][ \A name \in SynthNames, cons \in ConstraintConfigs :
          CreateSynthesizer(name, cons) =>
             IF name \in {"gaussian_copula", "tvae"}
             THEN /\ out' = Returned("create")
                  /\ synthType' = name
                  /\ constraints' = cons
                  /\ fitted' = FALSE
                  /\ synthesizer' = NoModel
             ELSE /\ out' = Raised("create", "Unsupported synthesizer")
                  /\ synthType' = "none" ]_vars

\* a TVAE wrapper just created
C12_Witness ==
    /\ out = Returned("create")
    /\ synthType = "tvae"
    /\ ~fitted /\ synthesizer = NoModel /\ ~everFitted

-----------------------------------------------------------------------------
(* Properties of concurrent requests *)

LongSteps == {"fit", "sample", "persist", "score"}

\* C13: while a generate request is in its fit, sample, file-write or scoring
\* step, the request loop can begin handling another tool call.
C13_LoopResponsive ==
    \A t \in TaskIds, u \in TaskIds :
        (tasks[t].call.name = "generate_synthetic_data" /\ tasks[t].pc \in LongSteps
         /\ tasks[u].pc = "none")
            => LoopFree

OmitsOutputPath(t) ==
    /\ tasks[t].call.name = "generate_synthetic_data"
    /\ "output_path" \notin DOMAIN tasks[t].call.arguments

Generated(t) == Handled(t) /\ ~tasks[t].outcome.raised

\* C14: when two generate requests that both omit output_path have completed,
\* in whatever interleaving, the file each response names holds the rows that
\* request generated.
C14_OwnOutputFile ==
    (\A t \in TaskIds : OmitsOutputPath(t) /\ Generated(t)) =>
        \A t \in TaskIds :
            LET path == tasks[t].outcome.result.file_path IN
            /\ path \in DOMAIN disk
            /\ disk[path].by = t
            /\ disk[path].rows = tasks[t].call.arguments["num_rows"]

-----------------------------------------------------------------------------
(* Properties of analyze, validate, the loader's limits and the compiler *)

Analysed == anaOut.status = "ok"

\* C15 (as the code has it): analyze recommends tvae exactly when (number of
\* numeric columns) / (number of columns) is below 0.3, and gaussian_copula
\* otherwise; the denominator is the column count.
C15_RecommendByColumns ==
    Analysed =>
        /\ anaOut.recommendations \in {"tvae", "gaussian_copula"}
        /\ anaOut.recommendations = "tvae"
              <=> 10 * anaIn.content.numeric < 3 * anaIn.content.cols

\* C15 (as stated): analyze recommends tvae exactly when (number of numeric
\* columns) / (row count) is below 0.3, and gaussian_copula otherwise.
C15_RecommendByRows ==
    Analysed =>
        /\ anaOut.recommendations \in {"tvae", "gaussian_copula"}
        /\ anaOut.recommendations = "tvae"
              <=> 10 * anaIn.content.numeric < 3 * anaIn.content.rows

\* ten rows, two columns, both numeric: 2/2 is not below 0.3, 2/10 is
C15_Witness ==
    /\ Analysed
    /\ anaIn.content.rows = 10 /\ anaIn.content.cols = 2 /\ anaIn.content.numeric = 2
    /\ anaOut.recommendations = "gaussian_copula"

\* C16: the schema validation of a report says valid exactly when the missing
\* columns, the extra columns and the type mismatches are all empty, these
\* being the set differences of the column names and the shared columns whose
\* types differ; a table scored against itself is valid with all three empty.
C16_SchemaValidIff ==
    ReportReturned =>
        LET v == report.metrics["schema_validation"] IN
        /\ v.missing_columns = DOMAIN scoreIn.real \ DOMAIN scoreIn.synth
        /\ v.extra_columns = DOMAIN scoreIn.synth \ DOMAIN scoreIn.real
        /\ v.type_mismatches = {c \in SharedCols : scoreIn.real[c] # scoreIn.synth[c]}
        /\ v.valid <=> (v.missing_columns = {} /\ v.extra_columns = {}
                        /\ v.type_mismatches = {})
        /\ report.schema_valid = v.valid
        /\ scoreIn.real = scoreIn.synth => v.valid

\* a table scored against itself
C16_Witness ==
    /\ ReportReturned
    /\ scoreIn.real = scoreIn.synth
    /\ report.schema_valid
    /\ report.metrics["schema_validation"].type_mismatches = {}

\* the repair of the generate request left the column types as sampled
TypesKept == pc = "done" /\ ReadSchema(out.table) = ReadSchema(raw)

\* C17: generate on a sample file, then validate on that sample file and on
\* the file generate wrote, yields schema_valid = true when the constraints do
\* not alter column types.
C17_RoundTripSchemaValid ==
    (valOut.status # "none" /\ TypesKept) =>
        (valOut.status = "ok" /\ valOut.schema_valid)

Unsupported(file) == file.suffix \notin VALIDATE_SUFFIXES

\* C18: when the original or the synthetic path has an unsupported extension,
\* validate fails with the unsupported-format error before any file is read.
C18_UnsupportedBeforeRead ==
    (valOut.status # "none"
     /\ (Unsupported(valArgs.original) \/ Unsupported(valArgs.synthetic))) =>
        /\ valOut = ValFailed("Unsupported file format")
        /\ steps = << >>

\* C19: a table load_data returns has at least one row, at most
\* MAX_SAMPLE_ROWS rows, at most MAX_COLUMNS columns and at most
\* MAX_SAMPLE_SIZE_MB of memory, whichever source it came from; a load that
\* does not return fails with an error message.
C19_LoadedWithinLimits ==
    /\ loadOut.status = "ok" =>
          /\ loadOut.content.rows >= 1
          /\ loadOut.content.rows <= MAX_SAMPLE_ROWS
          /\ loadOut.content.cols <= MAX_COLUMNS
          /\ loadOut.content.mb <= MAX_SAMPLE_SIZE_MB
    /\ loadOut.status = "error" => loadOut.err # ""

\* a database table of more rows than the ceiling, returned cut to the ceiling
C19_Witness ==
    /\ Truthy(loadArgs.db_connection) /\ Truthy(loadArgs.table_name)
    /\ loadOut = Loaded(Bulk(MAX_SAMPLE_ROWS, 2, 1))

BoundKinds == {"ScalarRange", "Positive", "Negative"}
Bounds(built) == SelectSeq(built, LAMBDA c : c.kind \in BoundKinds)
Uniques(built) == SelectSeq(built, LAMBDA c : c.kind = "Unique")

\* C20: one leaf rule set compiles to exactly one Range constraint with the
\* given bounds (strict unless strict is given) when min and max are both
\* present; to Positive when only min is present and is 0; to Negative when
\* only max is present and is 0; to no bound constraint otherwise; and, apart
\* from the bounds, to one Unique constraint exactly when unique is true.
C20_LeafCompilation ==
    compileIn.done =>
        LET cfg == compileIn.config
            hasMin == "min" \in DOMAIN cfg
            hasMax == "max" \in DOMAIN cfg
            b == Bounds(compileOut)
            u == Uniques(compileOut)
        IN /\ Len(compileOut) = Len(b) + Len(u)
           /\ \A i \in DOMAIN compileOut : compileOut[i].column = compileIn.column
           /\ (hasMin /\ hasMax) =>
                 /\ Len(b) = 1 /\ b[1].kind = "ScalarRange"
                 /\ b[1].low = cfg["min"] /\ b[1].high = cfg["max"]
                 /\ b[1].strict = (IF "strict" \in DOMAIN cfg THEN cfg["strict"] ELSE TRUE)
           /\ (hasMin /\ ~hasMax /\ cfg["min"] = 0) => (Len(b) = 1 /\ b[1].kind = "Positive")
           /\ (hasMax /\ ~hasMin /\ cfg["max"] = 0) => (Len(b) = 1 /\ b[1].kind = "Negative")
           /\ (hasMin /\ ~hasMax /\ cfg["min"] # 0) => b = << >>
           /\ (hasMax /\ ~hasMin /\ cfg["max"] # 0) => b = << >>
           /\ (~hasMin /\ ~hasMax) => b = << >>
           /\ Len(u) = (IF "unique" \in DOMAIN cfg /\ cfg["unique"] THEN 1 ELSE 0)

\* a lone non-zero min with unique: no bound constraint, one Unique
C20_Witness ==
    /\ compileIn.done
    /\ compileIn.config = ("min" :> 1) @@ ("unique" :> TRUE)
    /\ Len(compileOut) = 1 /\ compileOut[1].kind = "Unique"

-----------------------------------------------------------------------------
(* Properties of the constraints handler *)

\* the columns a compiled constraint refers to
ReferencedColumns(c) ==
    CASE c.kind = "Inequality" -> {c.low_column_name, c.high_column_name}
      [] c.kind = "FixedCombinations" ->
            {c.column_names[i] : i \in 1..Len(c.column_names)}
      [] c.kind = "FormulaConstraint" ->
            {c.column_name} \cup (IF c.formula = NoFormula THEN {} ELSE {c.formula.col})
      [] OTHER -> {c.column}

Built == ruleIn.op = "build_constraints"

\* C21: every constraint compiled from the relationships or the dependencies
\* group refers only to columns of the sample; a rule naming a column the
\* sample lacks emits nothing, and a dependency whose columns all exist emits
\* FixedCombinations over depends_on + [column].
C21_CompiledColumnsExist ==
    Built =>
        /\ \A i \in 1..Len(ruleOut.constraints) :
              ReferencedColumns(ruleOut.constraints[i]) \subseteq ruleIn.columns
        /\ ("dependencies" \in DOMAIN ruleIn.config
            /\ DOMAIN ruleIn.config["dependencies"] = {"column", "depends_on"}
            /\ ruleIn.config["dependencies"]["depends_on"] # << >>
            /\ \A i \in 1..Len(ruleIn.config["dependencies"]["depends_on"]) :
                  ruleIn.config["dependencies"]["depends_on"][i] \in ruleIn.columns
            /\ ruleIn.config["dependencies"]["column"] \in ruleIn.columns)
           => \E i \in 1..Len(ruleOut.constraints) :
                 ruleOut.constraints[i] =
                    [kind |-> "FixedCombinations",
                     column_names |-> ruleIn.config["dependencies"]["depends_on"]
                                      \o <<ruleIn.config["dependencies"]["column"]>>]

\* the dependencies half of C21 on its own: what the dependencies group emits
\* refers only to columns of the sample
C21_DependencyColumnsExist ==
    Built =>
        \A i \in 1..Len(ruleOut.constraints) :
           ruleOut.constraints[i].kind = "FixedCombinations" =>
              ReferencedColumns(ruleOut.constraints[i]) \subseteq ruleIn.columns

IsValidReturned == ruleIn.op = "is_valid"

\* the formula of the constraint checked can be evaluated on the table and
\* the target column can be read
Evaluates(c, df) ==
    /\ c.formula # NoFormula
    /\ c.formula.col \in Columns(df)
    /\ c.column_name \in Columns(df)

\* |formula value - stored value| of row i, in two-hundredths
Difference(c, df, i) ==
    Abs(df[c.formula.col][i].n * c.formula.times - df[c.column_name][i].n)

\* C23: is_valid of a formula constraint returns one flag per row and
\* raises nothing; when the formula evaluates, a row is satisfied exactly when
\* |formula value - stored value| is below the tolerance 0.01 (two
\* two-hundredths; a difference of exactly 0.01 is not below it); when the
\* evaluation fails, every row is satisfied.
C23_FormulaSatisfied ==
    IsValidReturned =>
        LET c  == ruleIn.constraint
            df == ruleIn.table
        IN /\ ruleOut.status = "ok"
           /\ Len(ruleOut.valid) = NRows(df)
           /\ \A i \in 1..NRows(df) :
                 ruleOut.valid[i] <=> (Evaluates(c, df) => Difference(c, df, i) < 2)

\* a table with a row off by 0.005 (satisfied) and a row off by 0.01 or more
C23_Witness ==
    /\ IsValidReturned
    /\ Evaluates(ruleIn.constraint, ruleIn.table)
    /\ \E i, j \in 1..NRows(ruleIn.table) :
          /\ Difference(ruleIn.constraint, ruleIn.table, i) = 1 /\ ruleOut.valid[i]
          /\ Difference(ruleIn.constraint, ruleIn.table, j) >= 2 /\ ~ruleOut.valid[j]

\* a formula naming a column the table lacks: every row is satisfied
C23_FailOpenReached ==
    /\ IsValidReturned
    /\ ~Evaluates(ruleIn.constraint, ruleIn.table)
    /\ NRows(ruleIn.table) > 0
    /\ \A i \in 1..NRows(ruleIn.table) : ruleOut.valid[i]

ValidationReturned == ruleIn.op = "validate_constraints"

\* occurrences of x in a sequence
Count(seq, x) == Cardinality({i \in 1..Len(seq) : seq[i] = x})

\* what evaluating constraint i of the pass did
Evaluated(i) ==
    IF ruleIn.sdv[i].kind = "FormulaConstraint"
    THEN [raises |-> FALSE, valid |-> formula_is_valid(ruleIn.sdv[i], ruleIn.table, 200)]
    ELSE ruleIn.libs[i]

\* C24: the validation pass returns for any compiled constraints and any
\* table; every constraint is in exactly one of passed and violations, one
\* whose evaluation raises as a violations entry with an error field, one with
\* failing rows with their count and percentage, so that
\* constraints_satisfied + number of violations = total_constraints.
C24_ValidationPartition ==
    ValidationReturned =>
        LET r   == ruleOut.result
            sdv == ruleIn.sdv
            n   == NRows(ruleIn.table)
            named == [i \in 1..Len(r.violations) |-> r.violations[i].constraint]
        IN /\ ruleOut.status = "ok"
           /\ r.total_constraints = Len(sdv)
           /\ r.constraints_satisfied = Len(r.passed)
           /\ r.constraints_satisfied + Len(r.violations) = r.total_constraints
           /\ \A i \in 1..Len(sdv) :
                 /\ Count(r.passed, sdv[i]) + Count(named, sdv[i]) = Count(sdv, sdv[i])
                 /\ Evaluated(i).raises =>
                       \E k \in 1..Len(r.violations) :
                          /\ r.violations[k].constraint = sdv[i]
                          /\ "error" \in DOMAIN r.violations[k]
                 /\ (~Evaluated(i).raises /\ ViolationCount(Evaluated(i).valid) > 0) =>
                       \E k \in 1..Len(r.violations) :
                          /\ r.violations[k].constraint = sdv[i]
                          /\ "error" \notin DOMAIN r.violations[k]
                          /\ r.violations[k].violations = ViolationCount(Evaluated(i).valid)
                          /\ r.violations[k].percentage.num
                                = 100 * ViolationCount(Evaluated(i).valid)
                          /\ r.violations[k].percentage.den = n
                 /\ (~Evaluated(i).raises /\ ViolationCount(Evaluated(i).valid) = 0) =>
                       Count(r.passed, sdv[i]) > 0

\* a pass over two constraints, one passing and one whose evaluation raises
C24_Witness ==
    /\ ValidationReturned
    /\ Len(ruleIn.sdv) = 2
    /\ Len(ruleOut.result.passed) = 1
    /\ \E k \in 1..Len(ruleOut.result.violations) :
          "error" \in DOMAIN ruleOut.result.violations[k]

-----------------------------------------------------------------------------
(* Properties of formula constraints through the wrappers *)

\* the formula constraints the wrapper's configuration compiles to
ConfiguredFormulas ==
    SelectSeq(build_constraints(constraints, fitData),
              LAMBDA c : c.kind = "FormulaConstraint")

\* C22: for either backend, no formula constraint is handed to the backend
\* model at fit (only Unique, Inequality and FixedCombinations are), and the
\* table sample returns for a configuration with a custom_formula rule has, in
\* every row, the target column equal to the formula's value within 0.01.
C22_FormulaPostProcessed ==
    /\ \A i \in 1..Len(synthesizer.added) :
          synthesizer.added[i].kind \in {"Unique", "Inequality", "FixedCombinations"}
    /\ SampleReturned =>
          \A k \in 1..Len(ConfiguredFormulas) :
             \A i \in 1..NRows(out.table) :
                formula_is_valid(ConfiguredFormulas[k], out.table, 1)[i]

\* the first half of C22 on its own: what fit hands to the backend model
C22_NeverHandedToBackend ==
    \A i \in 1..Len(synthesizer.added) :
       synthesizer.added[i].kind \in {"Unique", "Inequality", "FixedCombinations"}

\* a fit that handed the ordering rule, and not the formula, to the backend
C22_HandedReached ==
    /\ out.call = "fit" /\ out.status = "ok"
    /\ Len(ConfiguredFormulas) = 1
    /\ Len(synthesizer.added) = 1

-----------------------------------------------------------------------------
(* Properties of the unique repair *)

\* the column as the unique repair reads it: a bounded numeric column has
\* been clipped first
BeforeUnique(col, cfg) ==
    IF ("min" \in DOMAIN cfg \/ "max" \in DOMAIN cfg) /\ IsNumeric(col)
    THEN ClipCol(col, cfg) ELSE col

\* how many earlier rows hold the value of row i
Earlier(col, i) == Cardinality({j \in 1..(i - 1) : col[j] = col[i]})

\* 'local+k@domain', split at the last '@', else 'v_k'
Suffixed(str, k) ==
    IF \E p \in 1..Len(str) : str[p] = "@"
    THEN LET p == CHOOSE q \in 1..Len(str) :
                     str[q] = "@" /\ \A r \in 1..Len(str) : str[r] = "@" => r <= q
         IN SubSeq(str, 1, p - 1) \o <<"+">> \o IntStr(k) \o SubSeq(str, p, Len(str))
    ELSE str \o <<"_">> \o IntStr(k)

\* C25: the unique repair works in row order and from the column alone: the
\* first occurrence of a value is kept, its k-th later occurrence (k >= 1)
\* becomes 'local+k@domain' when the value contains '@' and 'v_k' otherwise,
\* so equal columns are repaired to equal columns.
C25_UniqueRepairForm ==
    (SampleReturned /\ synthType = "gaussian_copula") =>
        \A c \in DOMAIN constraints \cap Columns(raw) :
            LET col == BeforeUnique(raw[c], constraints[c]) IN
            (Get(constraints[c], "unique", FALSE) /\ HasDuplicates(col)) =>
                \A i \in 1..Len(col) :
                    out.table[c][i] =
                        IF Earlier(col, i) = 0 THEN col[i]
                        ELSE Str(Suffixed(PyStr(col[i]), Earlier(col, i)))

\* an address sampled three times: the third is renamed with counter 2
C25_Witness ==
    /\ SampleReturned /\ synthType = "gaussian_copula"
    /\ "email" \in DOMAIN constraints \cap Columns(raw)
    /\ Get(constraints["email"], "unique", FALSE)
    /\ raw["email"] = <<Str(<<"b", "@", "c">>), Str(<<"b", "@", "c">>),
                       Str(<<"b", "@", "c">>)>>
    /\ out.table["email"][3] = Str(<<"b", "+", "2", "@", "c">>)

-----------------------------------------------------------------------------
(* Properties of the scorer: failures and thresholds *)

\* the aggregate computation raised before a score was read
AggregateFailed == scoreIn # NoScoreIn /\ scoreIn.statOut = "ok"
                   /\ scoreIn.sdOut.kind = "raises"

\* C26: when the aggregate score computation fails, the report is still
\* returned, a warning is recorded, and the overall score is the weighted sum
\* with the neutral 0.5 as the aggregate term (0.5 x 0.40), not the sum
\* without that term.
C26_AggregateFailureCounted ==
    AggregateFailed =>
        /\ ReportReturned
        /\ FailureWarnings # {}
        /\ report.overall = WeightedSum(("sdmetrics_score" :> 500) @@ report.metrics)

\* C27: for every shared column the per-column score lies in [0,1], and is
\* the neutral 0.5 whenever its computation returns not-a-number or raises.
C27_ColumnScoreNeutral ==
    ReportReturned =>
        \A c \in SharedCols :
            /\ report.metrics["column_metrics"][c] \in 0..1000
            /\ scoreIn.colOut[c].kind \in {"nan", "raises"} =>
                  report.metrics["column_metrics"][c] = 500

\* the threshold warnings of the report
BelowMinimum ==
    \E i \in DOMAIN report.warnings :
       report.warnings[i] = "Quality score is below minimum threshold"
BelowRecommended ==
    \E i \in DOMAIN report.warnings :
       report.warnings[i] = "Quality score is below recommended threshold"
ThresholdWarnings ==
    {i \in DOMAIN report.warnings :
        report.warnings[i] \in {"Quality score is below minimum threshold",
                                "Quality score is below recommended threshold"}}

\* one thousandth, in the units of the exact overall quality
Thousandth == Unit \div 1000

\* C28, as the code has it: a report carries at most one threshold warning,
\* decided on the overall quality before rounding: 'below minimum' exactly
\* when it is < 0.5, 'below recommended' exactly when 0.5 <= it < 0.7; the
\* overall_score reported is that quality rounded to 3 decimals, within half
\* a thousandth of it.
C28_ThresholdOnUnrounded ==
    ReportReturned =>
        /\ Cardinality(ThresholdWarnings) <= 1
        /\ BelowMinimum <=> report.overall < MIN_QUALITY_SCORE * Thousandth
        /\ BelowRecommended <=>
              /\ report.overall >= MIN_QUALITY_SCORE * Thousandth
              /\ report.overall < QUALITY_SCORE_WARNING_THRESHOLD * Thousandth
        /\ 2 * Abs(report.overall_score * Thousandth - report.overall) <= Thousandth

\* C28: a report carries at most one threshold warning, 'below minimum'
\* exactly when overall < 0.5, 'below recommended' exactly when
\* 0.5 <= overall < 0.7, none otherwise, and the warning is consistent with
\* the overall_score reported (rounded to 3 decimals).
C28_ThresholdOnReported ==
    ReportReturned =>
        /\ Cardinality(ThresholdWarnings) <= 1
        /\ BelowMinimum <=> report.overall_score < MIN_QUALITY_SCORE
        /\ BelowRecommended <=>
              /\ report.overall_score >= MIN_QUALITY_SCORE
              /\ report.overall_score < QUALITY_SCORE_WARNING_THRESHOLD

\* a report whose quality rounds up to a threshold it is below
C28_Witness ==
    /\ ReportReturned
    /\ report.overall < QUALITY_SCORE_WARNING_THRESHOLD * Thousandth
    /\ report.overall_score = QUALITY_SCORE_WARNING_THRESHOLD
    /\ BelowRecommended

-----------------------------------------------------------------------------
(* Properties of the wrapper's readiness flag and of the output file *)

\* C29: in either wrapper, after any sequence of fit and sample calls, a
\* fit that raises after an earlier fit succeeded included, fitted = true
\* implies that the model held in self.synthesizer has completed a successful
\* fit, so that sample never queries an unfitted model once validate() passes.
C29_FittedHoldsFittedModel ==
    /\ fitted => (synthesizer.held /\ synthesizer.isFit)
    /\ (out.call = "sample" /\ fitted) => out.err # "backend model is not fitted"

\* the failures of input validation, by their messages
InputErrors ==
    {"Requested rows exceeds maximum",
     "Must provide exactly one of: file_path, inline_data, or (db_connection + table_name)",
     "Provide only one input source: file_path, inline_data, or (db_connection + table_name)",
     "Loaded data is empty", "Data has too many rows", "Data has too many columns",
     "Data size exceeds maximum", "File size exceeds maximum", "Unsupported file format",
     "Unsupported synthesizer", "Unsupported output format"}

FailedOnInput == pc = "failed" /\ response.err \in InputErrors

StepDone(name) == \E i \in 1..Len(steps) : steps[i] = name

\* C30: a generate request that fails on input validation (row ceiling, zero
\* or several sources, a load limit, an unknown synthesizer, an unsupported
\* output format) has written no output file; an output file exists only
\* after fit and sample completed and the output format was accepted.
C30_NoFileOnInputFailure ==
    /\ FailedOnInput => files = NoFiles
    /\ files # NoFiles =>
          /\ StepDone("fit") /\ StepDone("sample")
          /\ fitOk /\ out.call = "sample" /\ out.status = "ok"
          /\ req.output_format \in {"csv", "json", "parquet"}

\* a request refused for its output format after fit and sample: the
\* directory was made, no file was written
C30_Witness ==
    /\ pc = "failed" /\ response.err = "Unsupported output format"
    /\ StepDone("fit") /\ StepDone("sample") /\ StepDone("mkdir")
    /\ files = NoFiles

\* a request refused by the loader's row limit
C30_LoadLimitReached ==
    /\ pc = "failed" /\ response.err = "Data has too many rows"
    /\ files = NoFiles

====
